---------------------------- MODULE Spec2Model ----------------------------
(***************************************************************************)
(* Model of the Action/Behavior stack machine of                           *)
(* src/source/sdk/NextBotBehavior.h.                                       *)
(*                                                                         *)
(* The heap of Action objects is a function from node ids to records that  *)
(* carry the fields of class Action.  Every host entry point               *)
(* (Behavior::Update, Behavior::Resume, Behavior::Reset, ~Behavior, the    *)
(* event translators, the contextual queries) is one action; the           *)
(* recursive Invoke*/ApplyResult methods are recursive operators.  A       *)
(* virtual hook of a concrete Action is an input: the operators return the *)
(* SET of outcomes, one per value the hook may return.                     *)
(***************************************************************************)
EXTENDS Integers, Sequences, FiniteSets, TLC

VARIABLES
    m_action,     \* Behavior::m_action, the top of the root stack (NULL: idle)
    heap,         \* the Action objects: node id -> fields of class Action
    trace,        \* the virtual hooks invoked by the last host call, in order
    lastOp,       \* the last host call and its input
    fault,        \* "none", or the undefined behaviour the last call ran into
    behaviorLive, \* FALSE once ~Behavior has run
    env           \* the concrete Actions in use: what their hooks and event
                  \* handlers can return (fixed by the initial state)

vars == <<m_action, heap, trace, lastOp, fault, behaviorLive, env>>

----------------------------------------------------------------------------
(* Bounds *)

\* number of Action objects that can be constructed in one behaviour
MaxNodes == 3

----------------------------------------------------------------------------
(* Program constants *)

NULL == 0

\* enum EventResultPriorityType
RESULT_NONE == 0
RESULT_TRY == 1
RESULT_IMPORTANT == 2
RESULT_CRITICAL == 3

\* enum ActionResultType
ActionResultType == {"CONTINUE", "CHANGE_TO", "SUSPEND_FOR", "DONE", "SUSTAIN"}

\* enum QueryResultType
QueryResultType == {"ANSWER_NO", "ANSWER_YES", "ANSWER_UNDEFINED"}

Nodes == 1..MaxNodes

\* the priorities an event handler can give its proposal
EventPriorities == {RESULT_NONE, RESULT_TRY, RESULT_IMPORTANT, RESULT_CRITICAL}

----------------------------------------------------------------------------
(* IActionResult / EventDesiredResult *)

\* EventDesiredResult(type, action, priority)
EventDesiredResult(type, action, priority) ==
    [m_type |-> type, m_action |-> action, m_priority |-> priority]

\* ActionResult(type, action)
ActionResult(type, action) == [m_type |-> type, m_action |-> action]

IsDone(r) == r.m_type = "DONE"

IsContinue(r) == r.m_type = "CONTINUE"

IsRequestingChange(r) == r.m_type \in {"CHANGE_TO", "SUSPEND_FOR", "DONE"}

Continue == ActionResult("CONTINUE", NULL)

ChangeTo(action) == ActionResult("CHANGE_TO", action)

Done == ActionResult("DONE", NULL)

TryContinue(priority) == EventDesiredResult("CONTINUE", NULL, priority)

TryChangeTo(action, priority) == EventDesiredResult("CHANGE_TO", action, priority)

TrySuspendFor(action, priority) == EventDesiredResult("SUSPEND_FOR", action, priority)

TryDone(priority) == EventDesiredResult("DONE", NULL, priority)

TryToSustain(priority) == EventDesiredResult("SUSTAIN", NULL, priority)

----------------------------------------------------------------------------
(* The heap *)

\* storage no constructor has run on yet
Unborn ==
    [life |-> "unborn", m_parent |-> NULL, m_child |-> NULL,
     m_buriedUnderMe |-> NULL, m_coveringMe |-> NULL,
     m_isStarted |-> FALSE, m_isSuspended |-> FALSE,
     m_eventResult |-> TryContinue(RESULT_NONE),
     nStart |-> 0, nEnd |-> 0, sinceSuspend |-> -1]

\* Action::Action
NewAction == [Unborn EXCEPT !.life = "live"]

\* The state the operators below transform: the four variables a host call
\* changes, as one record.
State(a, h, t, f) == [act |-> a, h |-> h, tr |-> t, fault |-> f]

\* env.nodes bounds the number of Actions constructed in one behaviour
CanAlloc(s) == \E i \in 1..env.nodes : s.h[i].life = "unborn"

\* the id of the next object constructed: ids are given in construction order
Fresh(s) == CHOOSE i \in 1..env.nodes :
                /\ s.h[i].life = "unborn"
                /\ \A j \in 1..(i - 1) : s.h[j].life # "unborn"

\* new Action
New(s) == [s EXCEPT !.h[Fresh(s)] = NewAction]

\* the values a freshly built (or absent) action argument can take
ActionArgs(s) == {NULL} \cup (IF CanAlloc(s) THEN {Fresh(s)} ELSE {})

\* one entry of the trace: hook invoked on node with argument arg (the prior,
\* next or interrupting action) and what it returned.  g is a measurement
\* taken when the hook was invoked: for "Update" the node's sinceSuspend
\* counter, for "OnEnd" 1 when a node stacked above it was still started, for
\* "OnStart" the node's <<m_parent, m_child>>.
\* A "Store" entry records a call of StorePendingEventResult on node: its
\* result fields hold the slot the call found (the proposal is the entry
\* before it).  A "NotResumed" entry records that InvokeOnResume left node
\* suspended: its result fields hold the slot that made it do so.  An
\* "Argument" entry holds the result a direct call of
\* StorePendingEventResult was given.
Entry(hook, node, arg, r, prio, g) ==
    [hook |-> hook, node |-> node, arg |-> arg,
     rtype |-> r.m_type, raction |-> r.m_action, prio |-> prio, g |-> g]

Log(s, e) == [s EXCEPT !.tr = Append(@, e)]

Fault(s, what) == [s EXCEPT !.fault = what]

\* an outcome of an operator: the state, the ActionResult it returns (r) and
\* the Action pointer it returns (ret)
Out(s, r, ret) == [s |-> s, r |-> r, ret |-> ret]

\* sequencing: run F on every outcome of S; undefined behaviour ends the call
Bind(S, F(_)) == UNION { IF o.s.fault # "none" THEN {o} ELSE F(o) : o \in S }

----------------------------------------------------------------------------
(* Destruction and the OnEnd cascade (no hook returns a value here) *)

\* what is left of an object once its storage is freed; the model keeps
\* m_isStarted as it was at that moment and the hook counters
Dead(rec) ==
    [Unborn EXCEPT !.life = "dead", !.m_isStarted = rec.m_isStarted,
                   !.nStart = rec.nStart, !.nEnd = rec.nEnd]

RECURSIVE DeleteAction(_, _), DeleteChildren(_, _)

\* the loop of ~Action over m_child and the children buried under it
DeleteChildren(s, child) ==
    IF child = NULL \/ s.fault # "none" THEN s
    ELSE LET next == s.h[child].m_buriedUnderMe
         IN DeleteChildren(DeleteAction(s, child), next)

\* delete n: Action::~Action, then the storage is freed
DeleteAction(s, n) ==
    IF s.fault # "none" THEN s
    ELSE IF s.h[n].life # "live" THEN Fault(s, "delete of a freed object")
    ELSE
      LET s0 == [s EXCEPT !.h[n].life = "dying"]
          p  == s0.h[n].m_parent
          s1 == IF p # NULL /\ s0.h[p].m_child = n
                THEN [s0 EXCEPT !.h[p].m_child = s0.h[n].m_buriedUnderMe]
                ELSE s0
          s2 == DeleteChildren(s1, s1.h[n].m_child)
          b  == s2.h[n].m_buriedUnderMe
          s3 == IF b # NULL THEN [s2 EXCEPT !.h[b].m_coveringMe = NULL] ELSE s2
          c  == s3.h[n].m_coveringMe
          s4 == IF c # NULL THEN DeleteAction(s3, c) ELSE s3
          a  == s4.h[n].m_eventResult.m_action
          s5 == IF a # NULL THEN DeleteAction(s4, a) ELSE s4
      IN IF s5.fault # "none" THEN s5 ELSE [s5 EXCEPT !.h[n] = Dead(@)]

RECURSIVE Under(_, _, _)

\* the nodes buried under x, following at most k links
Under(s, x, k) ==
    LET b == s.h[x].m_buriedUnderMe
    IN IF b = NULL \/ k = 0 THEN {} ELSE {b} \cup Under(s, b, k - 1)

\* some Action stacked above n has started and not ended
StartedAbove(s, n) ==
    \E x \in Nodes \ {n} :
        /\ s.h[x].life \in {"live", "dying"}
        /\ s.h[x].m_isStarted
        /\ n \in Under(s, x, MaxNodes)

\* virtual void OnEnd(me, nextAction): returns nothing
OnEnd(s, n, nextAction) ==
    Log([s EXCEPT !.h[n].nEnd = @ + 1],
        Entry("OnEnd", n, nextAction, Continue, RESULT_NONE,
              IF StartedAbove(s, n) THEN 1 ELSE 0))

RECURSIVE InvokeOnEnd(_, _, _), EndChildren(_, _, _),
          EndChildrenBottomUp(_, _, _), InvokeOnEndUnguarded(_, _, _)

\* InvokeOnEnd without the test of m_isStarted
InvokeOnEndUnguarded(s, n, nextAction) ==
    LET s1 == [s EXCEPT !.h[n].m_isStarted = FALSE]
        s2 == EndChildren(s1, s1.h[n].m_child, nextAction)
        s3 == OnEnd(s2, n, nextAction)
        c  == s3.h[n].m_coveringMe
    IN IF c # NULL THEN InvokeOnEnd(s3, c, nextAction) ELSE s3

\* EndChildren with the loop run from the deepest buried child upwards
EndChildrenBottomUp(s, child, nextAction) ==
    IF child = NULL THEN s
    ELSE InvokeOnEnd(EndChildrenBottomUp(s, s.h[child].m_buriedUnderMe,
                                         nextAction),
                     child, nextAction)

\* the loop of InvokeOnEnd over m_child and the children buried under it
EndChildren(s, child, nextAction) ==
    IF child = NULL THEN s
    ELSE LET next == s.h[child].m_buriedUnderMe
         IN EndChildren(InvokeOnEnd(s, child, nextAction), next, nextAction)

\* Action::InvokeOnEnd
InvokeOnEnd(s, n, nextAction) ==
    IF ~s.h[n].m_isStarted THEN s
    ELSE LET s1 == [s EXCEPT !.h[n].m_isStarted = FALSE]
             s2 == EndChildren(s1, s1.h[n].m_child, nextAction)
             s3 == OnEnd(s2, n, nextAction)
             c  == s3.h[n].m_coveringMe
         IN IF c # NULL THEN InvokeOnEnd(s3, c, nextAction) ELSE s3

----------------------------------------------------------------------------
(* The pending event slot *)

\* IsMoreImportant with a tie counted as more important
IsAtLeastAsImportant(result, cur) == result.m_priority >= cur.m_priority

\* IsMoreImportant taking any other priority for a higher one
IsDifferentlyImportant(result, cur) == result.m_priority # cur.m_priority

\* the first test of StorePendingEventResult: "new result is more important"
IsMoreImportant(result, cur) == result.m_priority > cur.m_priority

\* OverridesSustain that lets no proposal override at the same priority
OverridesNothing(result, cur) == FALSE

\* the second test: "same priority as existing SUSTAIN, override"
OverridesSustain(result, cur) ==
    result.m_priority = cur.m_priority /\ cur.m_type = "SUSTAIN"

\* DestroyReplaced that keeps the replaced action allocated
KeepReplaced(s, cur) == s

\* "destroy the replaced action"
DestroyReplaced(s, cur) ==
    IF cur.m_action # NULL THEN DeleteAction(s, cur.m_action) ELSE s

\* StorePendingEventResult without its first test, a Continue stored like
\* any other proposal
StorePendingEventResultOfAnyType(s, n, result) ==
    LET cur == s.h[n].m_eventResult IN
    IF IsMoreImportant(result, cur)
    THEN LET s1 == IF result.m_priority # RESULT_NONE
                   THEN DestroyReplaced(s, cur) ELSE s
         IN [s1 EXCEPT !.h[n].m_eventResult = result]
    ELSE IF OverridesSustain(result, cur)
    THEN [DestroyReplaced(s, cur) EXCEPT !.h[n].m_eventResult = result]
    ELSE IF result.m_action # NULL THEN DeleteAction(s, result.m_action)
    ELSE s

\* Action::StorePendingEventResult
StorePendingEventResult(s, n, result) ==
    LET cur == s.h[n].m_eventResult IN
    IF IsContinue(result) THEN s
    ELSE IF IsMoreImportant(result, cur)
    THEN LET s1 == IF result.m_priority # RESULT_NONE
                   THEN DestroyReplaced(s, cur) ELSE s
         IN [s1 EXCEPT !.h[n].m_eventResult = result]
    ELSE IF OverridesSustain(result, cur)
    THEN [DestroyReplaced(s, cur) EXCEPT !.h[n].m_eventResult = result]
    ELSE IF result.m_action # NULL THEN DeleteAction(s, result.m_action)
    ELSE s

RECURSIVE BuriedChangeOrDone(_, _)

\* the loop of IsOutOfScope, from the node `under`
BuriedChangeOrDone(s, under) ==
    IF under = NULL THEN FALSE
    ELSE IF s.h[under].m_eventResult.m_type \in {"CHANGE_TO", "DONE"} THEN TRUE
    ELSE BuriedChangeOrDone(s, s.h[under].m_buriedUnderMe)

\* IsOutOfScope looking only at the Action directly buried under n
IsOutOfScopeNearest(s, n) ==
    /\ s.h[n].m_buriedUnderMe # NULL
    /\ s.h[s.h[n].m_buriedUnderMe].m_eventResult.m_type \in {"CHANGE_TO", "DONE"}

\* IsOutOfScope finding every Action in scope
IsInScopeAlways(s, n) == FALSE

\* Action::IsOutOfScope
IsOutOfScope(s, n) == BuriedChangeOrDone(s, s.h[n].m_buriedUnderMe)

RECURSIVE BuriedSuspendFor(_, _), BuriedSuspendForDeepest(_, _)

\* BuriedSuspendFor preferring the deepest buried node that holds SUSPEND_FOR
BuriedSuspendForDeepest(s, under) ==
    IF under = NULL THEN NULL
    ELSE LET deeper == BuriedSuspendForDeepest(s, s.h[under].m_buriedUnderMe)
         IN IF deeper # NULL THEN deeper
            ELSE IF s.h[under].m_eventResult.m_type = "SUSPEND_FOR" THEN under
            ELSE NULL

\* the loop of ProcessPendingEvents over the buried Actions: the nearest
\* buried node whose slot holds SUSPEND_FOR, or NULL
BuriedSuspendFor(s, under) ==
    IF under = NULL THEN NULL
    ELSE IF s.h[under].m_eventResult.m_type = "SUSPEND_FOR" THEN under
    ELSE BuriedSuspendFor(s, s.h[under].m_buriedUnderMe)

\* ProcessPendingEvents reading the slots of the buried Actions only
ProcessBuriedEventsOnly(s, n) ==
    LET u == BuriedSuspendFor(s, s.h[n].m_buriedUnderMe)
    IN IF u # NULL
       THEN Out([s EXCEPT !.h[u].m_eventResult = TryContinue(RESULT_NONE)],
                ActionResult(s.h[u].m_eventResult.m_type,
                             s.h[u].m_eventResult.m_action), n)
       ELSE Out(s, Continue, n)

\* ProcessPendingEvents returning the request of the own slot without
\* clearing the slot
ProcessPendingEventsKeeping(s, n) ==
    LET own == s.h[n].m_eventResult
        u   == BuriedSuspendFor(s, s.h[n].m_buriedUnderMe)
    IN IF IsRequestingChange(own)
       THEN Out(s, ActionResult(own.m_type, own.m_action), n)
       ELSE IF u # NULL
       THEN Out([s EXCEPT !.h[u].m_eventResult = TryContinue(RESULT_NONE)],
                ActionResult(s.h[u].m_eventResult.m_type,
                             s.h[u].m_eventResult.m_action), n)
       ELSE Out(s, Continue, n)

\* Action::ProcessPendingEvents: the result and the state with the slot read
\* cleared
ProcessPendingEvents(s, n) ==
    LET own == s.h[n].m_eventResult
        u   == BuriedSuspendFor(s, s.h[n].m_buriedUnderMe)
    IN IF IsRequestingChange(own)
       THEN Out([s EXCEPT !.h[n].m_eventResult = TryContinue(RESULT_NONE)],
                ActionResult(own.m_type, own.m_action), n)
       ELSE IF u # NULL
       THEN Out([s EXCEPT !.h[u].m_eventResult = TryContinue(RESULT_NONE)],
                ActionResult(s.h[u].m_eventResult.m_type,
                             s.h[u].m_eventResult.m_action), n)
       ELSE Out(s, Continue, n)

----------------------------------------------------------------------------
(* The virtual hooks of a concrete Action: inputs of the model *)

\* Action::SuspendFor: the named constructor clears the caller's own slot
SuspendFor(s, n, action) ==
    Out([s EXCEPT !.h[n].m_eventResult = TryContinue(RESULT_NONE)],
        ActionResult("SUSPEND_FOR", action), NULL)

\* what the body of a hook of node n can return through the named
\* constructors Continue(), ChangeTo(...), SuspendFor(...), Done(); the
\* action a result carries is constructed by the hook (or is NULL).
\* env.hooks lists the <<type, carries a new action>> pairs in use.
HookResults(s, n) ==
    { Out(s, Continue, NULL) : k \in {<<"CONTINUE", FALSE>>} \cap env.hooks }
    \cup { Out(s, Done, NULL) : k \in {<<"DONE", FALSE>>} \cap env.hooks }
    \cup { Out(s, ChangeTo(NULL), NULL) :
             k \in {<<"CHANGE_TO", FALSE>>} \cap env.hooks }
    \cup { SuspendFor(s, n, NULL) :
             k \in {<<"SUSPEND_FOR", FALSE>>} \cap env.hooks }
    \cup { Out(New(s), ChangeTo(Fresh(s)), NULL) :
             k \in IF CanAlloc(s) THEN {<<"CHANGE_TO", TRUE>>} \cap env.hooks
                   ELSE {} }
    \cup { SuspendFor(New(s), n, Fresh(s)) :
             k \in IF CanAlloc(s) THEN {<<"SUSPEND_FOR", TRUE>>} \cap env.hooks
                   ELSE {} }

\* the outcomes of one hook invocation, each recorded in the trace
Returned(s, n, hook, arg, g) ==
    { Out(Log(o.s, Entry(hook, n, arg, o.r, RESULT_NONE, g)), o.r, NULL) :
        o \in HookResults(s, n) }

\* virtual ActionResult OnStart(me, priorAction)
OnStart(s, n, priorAction) ==
    Returned([s EXCEPT !.h[n].nStart = @ + 1, !.h[n].sinceSuspend = -1],
             n, "OnStart", priorAction, <<s.h[n].m_parent, s.h[n].m_child>>)

\* virtual ActionResult Update(me, interval)
Update(s, n) ==
    Returned([s EXCEPT !.h[n].sinceSuspend = -1],
             n, "Update", NULL, s.h[n].sinceSuspend)

\* virtual ActionResult OnSuspend(me, interruptingAction)
OnSuspend(s, n, interruptingAction) ==
    Returned([s EXCEPT !.h[n].sinceSuspend = 0],
             n, "OnSuspend", interruptingAction, -1)

\* virtual ActionResult OnResume(me, interruptingAction)
OnResume(s, n, interruptingAction) ==
    Returned([s EXCEPT !.h[n].sinceSuspend =
                          IF @ = -1 THEN -1 ELSE IF @ = 0 THEN 1 ELSE 2],
             n, "OnResume", interruptingAction, -1)

\* virtual Action *InitialContainedAction(me): NULL or, when env.children,
\* a new Action
InitialContainedAction(s, n) ==
    { Out(IF a = NULL THEN s ELSE New(s), Continue, a) :
        a \in IF env.children THEN ActionArgs(s) ELSE {NULL} }

\* what an event handler of a concrete Action can return through
\* TryContinue(), TryChangeTo(), TrySuspendFor(), TryDone(), TryToSustain().
\* env.events lists the <<type, carries a new action, priority>> triples in
\* use besides TryContinue().
EventResults(s) ==
    {Out(s, TryContinue(RESULT_TRY), NULL)}
    \cup { Out(s, EventDesiredResult(k[1], NULL, k[3]), NULL) :
             k \in { e \in env.events : ~e[2] } }
    \cup { Out(New(s), EventDesiredResult(k[1], Fresh(s), k[3]), NULL) :
             k \in IF CanAlloc(s) THEN { e \in env.events : e[2] } ELSE {} }

\* virtual EventDesiredResult On<Event>(me, ...)
OnEvent(s, n) ==
    { Out(Log(o.s, Entry("OnEvent", n, NULL, o.r, o.r.m_priority, -1)),
          o.r, NULL) : o \in EventResults(s) }

----------------------------------------------------------------------------
(* The transition algorithm *)

RECURSIVE TopAction(_, _)

\* the loop of ApplyResult (SUSPEND_FOR) up the m_coveringMe links
TopAction(s, n) ==
    IF s.h[n].m_coveringMe = NULL THEN n
    ELSE TopAction(s, s.h[n].m_coveringMe)

\* DiscardEnded leaving the ended Action alive
KeepEnded(s, n, newAction) == s

\* DiscardEnded destroying also the Action buried under the ended one
DiscardEndedAndBuried(s, n, newAction) ==
    LET b  == s.h[n].m_buriedUnderMe
        s1 == DeleteAction(s, n)
    IN IF n = newAction THEN s
       ELSE IF b # NULL THEN DeleteAction(s1, b) ELSE s1

\* DiscardEnded destroying the ended Action also when it changed to itself
DiscardEndedAlways(s, n, newAction) == DeleteAction(s, n)

\* ApplyResult (CHANGE_TO): discard the ended action, unless it changed to
\* itself
DiscardEnded(s, n, newAction) ==
    IF n # newAction THEN DeleteAction(s, n) ELSE s

RECURSIVE ApplyResult(_, _, _), InvokeOnStart(_, _, _, _), InvokeUpdate(_, _),
          InvokeOnSuspend(_, _, _), InvokeOnResume(_, _, _),
          InvokeOnStartSelfFirst(_, _, _, _),
          InvokeOnSuspendUnflagged(_, _, _)

\* InheritParent that leaves m_parent as the constructor set it
InheritNothing(s, n, priorAction) == s

\* "maintain parent/child relationship during transitions": the new Action
\* takes over the parent of priorAction
InheritParent(s, n, priorAction) ==
    IF priorAction # NULL
    THEN [s EXCEPT !.h[n].m_parent = s.h[priorAction].m_parent]
    ELSE s

\* InvokeOnStart with the node's own OnStart run before its child is started
InvokeOnStartSelfFirst(s, n, priorAction, buriedUnderMeAction) ==
    LET s1 == [s EXCEPT !.h[n].m_isStarted = TRUE]
        s2 == InheritParent(s1, n, priorAction)
        p  == s2.h[n].m_parent
        s3 == IF p # NULL THEN [s2 EXCEPT !.h[p].m_child = n] ELSE s2
        s4 == [s3 EXCEPT !.h[n].m_buriedUnderMe = buriedUnderMeAction]
        s5 == IF buriedUnderMeAction # NULL
              THEN [s4 EXCEPT !.h[buriedUnderMeAction].m_coveringMe = n]
              ELSE s4
        s6 == [s5 EXCEPT !.h[n].m_coveringMe = NULL]
    IN Bind(InitialContainedAction(s6, n), LAMBDA o :
         LET c  == o.ret
             s7 == [o.s EXCEPT !.h[n].m_child = c]
         IN Bind(OnStart(s7, n, priorAction), LAMBDA g :
              IF c = NULL THEN {g}
              ELSE Bind(ApplyResult([g.s EXCEPT !.h[c].m_parent = n], c,
                                    ChangeTo(c)),
                        LAMBDA o2 :
                          {Out([o2.s EXCEPT !.h[n].m_child = o2.ret],
                               g.r, NULL)})))

\* Action::InvokeOnStart
InvokeOnStart(s, n, priorAction, buriedUnderMeAction) ==
    LET s1 == [s EXCEPT !.h[n].m_isStarted = TRUE]
        s2 == InheritParent(s1, n, priorAction)
        p  == s2.h[n].m_parent
        s3 == IF p # NULL THEN [s2 EXCEPT !.h[p].m_child = n] ELSE s2
        s4 == [s3 EXCEPT !.h[n].m_buriedUnderMe = buriedUnderMeAction]
        s5 == IF buriedUnderMeAction # NULL
              THEN [s4 EXCEPT !.h[buriedUnderMeAction].m_coveringMe = n]
              ELSE s4
        s6 == [s5 EXCEPT !.h[n].m_coveringMe = NULL]
    IN Bind(InitialContainedAction(s6, n), LAMBDA o :
         LET c  == o.ret
             s7 == [o.s EXCEPT !.h[n].m_child = c]
         IN IF c = NULL THEN OnStart(s7, n, priorAction)
            ELSE Bind(ApplyResult([s7 EXCEPT !.h[c].m_parent = n], c, ChangeTo(c)),
                      LAMBDA o2 :
                        OnStart([o2.s EXCEPT !.h[n].m_child = o2.ret],
                                n, priorAction)))

\* InvokeUpdate without the update of the child
InvokeUpdateOwnOnly(s, n) ==
    IF IsOutOfScope(s, n) THEN {Out(s, Done, NULL)}
    ELSE IF ~s.h[n].m_isStarted THEN {Out(s, ChangeTo(n), NULL)}
    ELSE LET ev == ProcessPendingEvents(s, n) IN
         IF ~IsContinue(ev.r) THEN {Out(ev.s, ev.r, NULL)}
         ELSE Update(ev.s, n)

\* Action::InvokeUpdate
InvokeUpdate(s, n) ==
    IF IsOutOfScope(s, n) THEN {Out(s, Done, NULL)}
    ELSE IF ~s.h[n].m_isStarted THEN {Out(s, ChangeTo(n), NULL)}
    ELSE LET ev == ProcessPendingEvents(s, n) IN
         IF ~IsContinue(ev.r) THEN {Out(ev.s, ev.r, NULL)}
         ELSE LET c == ev.s.h[n].m_child IN
              IF c = NULL THEN Update(ev.s, n)
              ELSE Bind(InvokeUpdate(ev.s, c), LAMBDA o :
                   Bind(ApplyResult(o.s, c, o.r), LAMBDA o2 :
                        Update([o2.s EXCEPT !.h[n].m_child = o2.ret], n)))

\* WantsReplacement taking every result other than Continue as Done
WantsReplacementUnlessContinue(result) == ~IsContinue(result)

\* the test of InvokeOnSuspend on the result of the OnSuspend hook
WantsReplacement(result) == IsDone(result)

\* InvokeOnSuspend that leaves m_isSuspended as it was
InvokeOnSuspendUnflagged(s, n, interruptingAction) ==
    LET c  == s.h[n].m_child
        S1 == IF c = NULL THEN {Out(s, Continue, NULL)}
              ELSE Bind(InvokeOnSuspend(s, c, interruptingAction), LAMBDA o :
                        {Out([o.s EXCEPT !.h[n].m_child = o.ret], Continue, NULL)})
    IN Bind(S1, LAMBDA o1 :
         Bind(OnSuspend(o1.s, n, interruptingAction),
              LAMBDA o2 :
                IF WantsReplacement(o2.r)
                THEN LET s3     == InvokeOnEnd(o2.s, n, NULL)
                         buried == s3.h[n].m_buriedUnderMe
                     IN {Out(DeleteAction(s3, n), Continue, buried)}
                ELSE {Out(o2.s, Continue, n)}))

\* Action::InvokeOnSuspend; ret is the Action on top of the stack afterwards
InvokeOnSuspend(s, n, interruptingAction) ==
    LET c  == s.h[n].m_child
        S1 == IF c = NULL THEN {Out(s, Continue, NULL)}
              ELSE Bind(InvokeOnSuspend(s, c, interruptingAction), LAMBDA o :
                        {Out([o.s EXCEPT !.h[n].m_child = o.ret], Continue, NULL)})
    IN Bind(S1, LAMBDA o1 :
         Bind(OnSuspend([o1.s EXCEPT !.h[n].m_isSuspended = TRUE],
                        n, interruptingAction),
              LAMBDA o2 :
                IF WantsReplacement(o2.r)
                THEN LET s3     == InvokeOnEnd(o2.s, n, NULL)
                         buried == s3.h[n].m_buriedUnderMe
                     IN {Out(DeleteAction(s3, n), Continue, buried)}
                ELSE {Out(o2.s, Continue, n)}))

\* NotActuallyResumed with every pending proposal, a Sustain too, taken for a
\* pending change
NotActuallyResumedOnAnyProposal(s, n) == ~IsContinue(s.h[n].m_eventResult)

\* NotActuallyResumed never skipping the resume
AlwaysResumed(s, n) == FALSE

\* the second test of InvokeOnResume: "this Action is not actually being
\* Resumed, because a change is already pending from a prior event"
NotActuallyResumed(s, n) == IsRequestingChange(s.h[n].m_eventResult)

\* Action::InvokeOnResume.  The branch that skips the resume leaves a
\* "NotResumed" entry in the trace, with the slot that caused it.
InvokeOnResume(s, n, interruptingAction) ==
    IF ~s.h[n].m_isSuspended THEN {Out(s, Continue, NULL)}
    ELSE IF NotActuallyResumed(s, n)
    THEN {Out(Log(s, Entry("NotResumed", n, interruptingAction,
                           s.h[n].m_eventResult,
                           s.h[n].m_eventResult.m_priority, -1)),
              Continue, NULL)}
    ELSE
      LET s1 == [s EXCEPT !.h[n].m_isSuspended = FALSE,
                          !.h[n].m_coveringMe = NULL]
          p  == s1.h[n].m_parent
          s2 == IF p # NULL THEN [s1 EXCEPT !.h[p].m_child = n] ELSE s1
          c  == s2.h[n].m_child
      IN IF c = NULL THEN OnResume(s2, n, interruptingAction)
         ELSE Bind(InvokeOnResume(s2, c, interruptingAction), LAMBDA o :
              Bind(ApplyResult(o.s, c, o.r), LAMBDA o2 :
                   OnResume([o2.s EXCEPT !.h[n].m_child = o2.ret],
                            n, interruptingAction)))

\* Action::ApplyResult; ret is the Action it returns
ApplyResult(s, n, result) ==
    LET newAction == result.m_action IN
    CASE result.m_type = "CHANGE_TO" ->
           IF newAction = NULL THEN {Out(s, Continue, n)}
           ELSE LET s1 == InvokeOnEnd(s, n, newAction) IN
                Bind(InvokeOnStart(s1, newAction, n, s1.h[n].m_buriedUnderMe),
                     LAMBDA o :
                       Bind({Out(DiscardEnded(o.s, n, newAction), o.r, NULL)},
                            LAMBDA o2 : ApplyResult(o2.s, newAction, o2.r)))
      [] result.m_type = "SUSPEND_FOR" ->
           Bind(InvokeOnSuspend(s, TopAction(s, n), newAction), LAMBDA o :
                IF newAction = NULL
                THEN {Out(Fault(o.s, "null dereference"), Continue, NULL)}
                ELSE Bind(InvokeOnStart(o.s, newAction, o.ret, o.ret),
                          LAMBDA o2 : ApplyResult(o2.s, newAction, o2.r)))
      [] result.m_type = "DONE" ->
           LET resumedAction == s.h[n].m_buriedUnderMe
               s1 == InvokeOnEnd(s, n, resumedAction)
           IN IF resumedAction = NULL
              THEN {Out(DeleteAction(s1, n), Continue, NULL)}
              ELSE Bind(InvokeOnResume(s1, resumedAction, n), LAMBDA o :
                        Bind({Out(DeleteAction(o.s, n), o.r, NULL)},
                             LAMBDA o2 :
                               ApplyResult(o2.s, resumedAction, o2.r)))
      [] OTHER -> {Out(s, Continue, n)}

----------------------------------------------------------------------------
(* Event propagation *)

RECURSIVE HandlerChain(_, _), HandlerChainApplying(_, _),
          HandlerChainThrough(_, _)

\* HandlerChain with the handler's proposal applied there and then instead
\* of stored
HandlerChainApplying(s, a) ==
    IF a = NULL THEN {Out(s, Continue, NULL)}
    ELSE Bind(OnEvent(s, a), LAMBDA o :
              IF IsContinue(o.r)
              THEN HandlerChainApplying(o.s, o.s.h[a].m_buriedUnderMe)
              ELSE Bind(ApplyResult(o.s, a, ActionResult(o.r.m_type,
                                                         o.r.m_action)),
                        LAMBDA o2 : {Out(o2.s, Continue, NULL)}))

\* HandlerChain going on to the buried Actions after a proposal is stored
HandlerChainThrough(s, a) ==
    IF a = NULL THEN {Out(s, Continue, NULL)}
    ELSE Bind(OnEvent(s, a), LAMBDA o :
              IF IsContinue(o.r)
              THEN HandlerChainThrough(o.s, o.s.h[a].m_buriedUnderMe)
              ELSE LET cur == o.s.h[a].m_eventResult
                       s1  == Log(o.s, Entry("Store", a, NULL, cur,
                                             cur.m_priority, -1))
                   IN HandlerChainThrough(StorePendingEventResult(s1, a, o.r),
                                          o.s.h[a].m_buriedUnderMe))

\* the while loop of PROCESS_EVENT from _action, and the store that follows
HandlerChain(s, a) ==
    IF a = NULL THEN {Out(s, Continue, NULL)}
    ELSE Bind(OnEvent(s, a), LAMBDA o :
              IF IsContinue(o.r)
              THEN HandlerChain(o.s, o.s.h[a].m_buriedUnderMe)
              ELSE LET cur == o.s.h[a].m_eventResult
                       s1  == Log(o.s, Entry("Store", a, NULL, cur,
                                             cur.m_priority, -1))
                   IN {Out(StorePendingEventResult(s1, a, o.r), Continue, NULL)})

\* Action::FirstContainedResponder
FirstContainedResponder(s, n) == s.h[n].m_child

RECURSIVE ProcessEvent(_, _)

\* INextBotEventResponder::On<Event>: hand the event to the contained
\* responder (NextContainedResponder is NULL for Action and Behavior)
PropagateEvent(s, responder) ==
    IF responder = NULL THEN {Out(s, Continue, NULL)}
    ELSE ProcessEvent(s, responder)

\* PROCESS_EVENT, the body of every event translator of Action
ProcessEvent(s, n) ==
    IF ~s.h[n].m_isStarted THEN {Out(s, Continue, NULL)}
    ELSE Bind(HandlerChain(s, n), LAMBDA o :
              PropagateEvent(o.s, FirstContainedResponder(o.s, n)))

----------------------------------------------------------------------------
(* Contextual queries *)

RECURSIVE InnermostChild(_, _)

\* the for loop of Behavior::ShouldPickUp down the m_child links
InnermostChild(s, n) ==
    IF s.h[n].m_child = NULL THEN n ELSE InnermostChild(s, s.h[n].m_child)

\* virtual QueryResultType ShouldPickUp(me, item) const, of a concrete Action
AnswerShouldPickUp(s, n) ==
    { Out(Log(s, Entry("ShouldPickUp", n, NULL,
                       ActionResult(ans, NULL), RESULT_NONE, -1)),
          ActionResult(ans, NULL), NULL) : ans \in QueryResultType }

RECURSIVE ScanShouldPickUp(_, _, _)

\* the two nested while loops of Behavior::ShouldPickUp, with the inner loop
\* at `action` and the outer loop's containingAction
ScanShouldPickUp(s, action, containingAction) ==
    IF action = NULL
    THEN IF containingAction = NULL
         THEN {Out(s, ActionResult("ANSWER_UNDEFINED", NULL), NULL)}
         ELSE ScanShouldPickUp(s, containingAction,
                               s.h[containingAction].m_parent)
    ELSE Bind(AnswerShouldPickUp(s, action), LAMBDA o :
              IF o.r.m_type # "ANSWER_UNDEFINED" THEN {o}
              ELSE ScanShouldPickUp(o.s, o.s.h[action].m_buriedUnderMe,
                                    containingAction))

\* ShouldPickUp emptying the pending slot of the Action that answers
ShouldPickUpConsuming(s) ==
    IF s.act = NULL THEN {Out(s, ActionResult("ANSWER_UNDEFINED", NULL), NULL)}
    ELSE LET leaf == InnermostChild(s, s.act)
         IN { Out(IF o.s.tr = <<>> THEN o.s
                  ELSE [o.s EXCEPT !.h[o.s.tr[Len(o.s.tr)].node].m_eventResult =
                                      TryContinue(RESULT_NONE)],
                  o.r, NULL) :
              o \in ScanShouldPickUp(s, leaf, s.h[leaf].m_parent) }

\* Behavior::ShouldPickUp
ShouldPickUp(s) ==
    IF s.act = NULL THEN {Out(s, ActionResult("ANSWER_UNDEFINED", NULL), NULL)}
    ELSE LET leaf == InnermostChild(s, s.act)
         IN ScanShouldPickUp(s, leaf, s.h[leaf].m_parent)

----------------------------------------------------------------------------
(* The host calls *)

\* the state a host call starts from: the trace is per call
Start == State(m_action, heap, <<>>, "none")

Op(name, arg) == [op |-> name, arg |-> arg]

Commit(s, op) ==
    /\ m_action' = s.act
    /\ heap' = s.h
    /\ trace' = s.tr
    /\ fault' = s.fault
    /\ lastOp' = op
    /\ UNCHANGED env

\* Assign keeping the former top when the call returns no Action
AssignUnlessNull(o) ==
    IF o.s.fault = "none" /\ o.ret # NULL THEN [o.s EXCEPT !.act = o.ret]
    ELSE o.s

\* the value Behavior::Update and Behavior::Resume assign to m_action
Assign(o) == IF o.s.fault = "none" THEN [o.s EXCEPT !.act = o.ret] ELSE o.s

RECURSIVE BottomAction(_, _)

\* the for loop of Behavior::Reset and ~Behavior down the m_buriedUnderMe links
BottomAction(s, n) ==
    IF s.h[n].m_buriedUnderMe = NULL THEN n
    ELSE BottomAction(s, s.h[n].m_buriedUnderMe)

\* every result a hook can build: each type, with a new action or with NULL
AllHookResults ==
    {<<"CONTINUE", FALSE>>, <<"DONE", FALSE>>, <<"CHANGE_TO", TRUE>>,
     <<"CHANGE_TO", FALSE>>, <<"SUSPEND_FOR", TRUE>>, <<"SUSPEND_FOR", FALSE>>}

\* every proposal an event handler can build
AllEventResults ==
    { <<ty, FALSE, p>> : ty \in {"DONE", "SUSTAIN", "CHANGE_TO", "SUSPEND_FOR"},
                         p \in EventPriorities }
    \cup { <<ty, TRUE, p>> : ty \in {"CHANGE_TO", "SUSPEND_FOR"},
                             p \in EventPriorities }

\* the Actions of the default specification: hooks return every type (with a
\* new action where one is carried), Actions may contain a child, event
\* handlers propose every type at RESULT_TRY and a RESULT_CRITICAL Sustain
EnvDefault ==
    [hooks  |-> {<<"CONTINUE", FALSE>>, <<"DONE", FALSE>>,
                 <<"CHANGE_TO", TRUE>>, <<"SUSPEND_FOR", TRUE>>},
     events |-> {<<"DONE", FALSE, RESULT_TRY>>, <<"CHANGE_TO", TRUE, RESULT_TRY>>,
                 <<"SUSPEND_FOR", TRUE, RESULT_TRY>>,
                 <<"SUSTAIN", FALSE, RESULT_CRITICAL>>},
     children |-> TRUE,
     nodes |-> MaxNodes]

\* Behavior::Behavior(initialAction)
InitWith(e) ==
    /\ env = e
    /\ m_action = 1
    /\ heap = [i \in Nodes |-> IF i = 1 THEN NewAction ELSE Unborn]
    /\ trace = <<>>
    /\ lastOp = Op("Behavior", 1)
    /\ fault = "none"
    /\ behaviorLive = TRUE

Init == InitWith(EnvDefault)

Running == behaviorLive /\ fault = "none"

\* Behavior::Update(me, interval); me = NULL is the null actor
BehaviorUpdate ==
    /\ Running
    /\ \E me \in {NULL, 1} :
         IF me = NULL \/ m_action = NULL
         THEN Commit(Start, Op("Update", me))
         ELSE \E o \in Bind(InvokeUpdate(Start, m_action), LAMBDA o1 :
                            ApplyResult(o1.s, m_action, o1.r)) :
                Commit(Assign(o), Op("Update", me))
    /\ UNCHANGED behaviorLive

\* Behavior::Resume(me)
BehaviorResume ==
    /\ Running
    /\ \E me \in {NULL, 1} :
         IF me = NULL \/ m_action = NULL
         THEN Commit(Start, Op("Resume", me))
         ELSE \E o \in Bind(OnResume(Start, m_action, NULL), LAMBDA o1 :
                            ApplyResult(o1.s, m_action, o1.r)) :
                Commit(Assign(o), Op("Resume", me))
    /\ UNCHANGED behaviorLive

\* the deletion Behavior::Reset and ~Behavior share
DeleteStack(s) ==
    IF s.act = NULL THEN s ELSE DeleteAction(s, BottomAction(s, s.act))

\* Behavior::Reset(action), with a new Action or NULL
BehaviorReset ==
    /\ Running
    /\ \E a \in ActionArgs(Start) :
         LET s0 == IF a = NULL THEN Start ELSE New(Start)
             s1 == DeleteStack(s0)
         IN Commit(IF s1.fault = "none" THEN [s1 EXCEPT !.act = a] ELSE s1,
                   Op("Reset", a))
    /\ UNCHANGED behaviorLive

\* Behavior::~Behavior
BehaviorDestroy ==
    /\ Running
    /\ LET s1 == DeleteStack(Start)
       IN Commit([s1 EXCEPT !.act = NULL], Op("~Behavior", NULL))
    /\ behaviorLive' = FALSE

\* an event the host injects: INextBotEventResponder::On<Event> of the
\* Behavior, whose contained responder is m_action
BehaviorOnEvent ==
    /\ Running
    /\ \E o \in PropagateEvent(Start, m_action) :
         Commit(o.s, Op("OnEvent", NULL))
    /\ UNCHANGED behaviorLive

Next ==
    \/ BehaviorUpdate
    \/ BehaviorResume
    \/ BehaviorReset
    \/ BehaviorDestroy
    \/ BehaviorOnEvent

Spec == Init /\ [][Next]_vars

\* Behavior::ShouldPickUp(me, item): the answer is the call's result
BehaviorShouldPickUp ==
    /\ Running
    /\ \E o \in ShouldPickUp(Start) :
         Commit(o.s, Op("ShouldPickUp", o.r.m_type))
    /\ UNCHANGED behaviorLive

\* the host also asks contextual queries
NextQuery == Next \/ BehaviorShouldPickUp

SpecQuery == Init /\ [][NextQuery]_vars

\* Updates and events only (with Reset and ~Behavior): the host never calls
\* Behavior::Resume
NextTicks ==
    \/ BehaviorUpdate
    \/ BehaviorOnEvent
    \/ BehaviorReset
    \/ BehaviorDestroy

SpecTicks == Init /\ [][NextTicks]_vars

\* the Actions of the specification of the pending slot: event handlers
\* propose everything, hooks only continue or finish, no contained Actions
EnvStore ==
    [hooks  |-> {<<"CONTINUE", FALSE>>, <<"DONE", FALSE>>},
     events |-> AllEventResults,
     children |-> FALSE,
     nodes |-> MaxNodes - 1]

SpecStore == InitWith(EnvStore) /\ [][Next]_vars

\* the results the Try...() builders of Action assemble, Continue among them
TryResults(s) ==
    { Out(s, EventDesiredResult(ty, NULL, p), NULL) :
        ty \in {"CONTINUE", "DONE", "SUSTAIN"}, p \in EventPriorities }
    \cup { Out(New(s), EventDesiredResult(ty, Fresh(s), p), NULL) :
             ty \in IF CanAlloc(s) THEN {"CHANGE_TO", "SUSPEND_FOR"} ELSE {},
             p \in EventPriorities }

\* Action::StorePendingEventResult(result, eventName), a public member,
\* called on an Action of the Behavior's stack.  The trace holds the
\* argument and then the "Store" entry.
ActionStorePendingEventResult ==
    /\ Running
    /\ m_action # NULL
    /\ \E n \in {m_action} \cup Under(Start, m_action, MaxNodes) :
       \E o \in TryResults(Start) :
         LET cur == o.s.h[n].m_eventResult
             s1  == Log(o.s, Entry("Argument", n, NULL, o.r,
                                   o.r.m_priority, -1))
             s2  == Log(s1, Entry("Store", n, NULL, cur, cur.m_priority, -1))
         IN Commit(StorePendingEventResult(s2, n, o.r),
                   Op("StorePendingEventResult", n))
    /\ UNCHANGED behaviorLive

\* the Actions of the specification of direct stores: the event handlers
\* only continue, every proposal comes from a direct call
EnvCall ==
    [hooks  |-> {<<"CONTINUE", FALSE>>, <<"DONE", FALSE>>},
     events |-> {},
     children |-> FALSE,
     nodes |-> MaxNodes - 1]

\* the host also stores event results itself
NextStore == Next \/ ActionStorePendingEventResult

SpecStoreCall == InitWith(EnvCall) /\ [][NextStore]_vars

----------------------------------------------------------------------------
(* Properties *)

\* C1: every node whose on_start was invoked has had its on_end invoked
\* exactly once by the time it is destroyed, whatever destroys it (Done,
\* ChangeTo, suspension-collapse, an ancestor's destruction, Reset or
\* ~Behavior), and on_end is never invoked twice or without an on_start.
C1_EndedOnceBeforeDestroyed ==
    \A n \in Nodes :
        /\ heap[n].nEnd <= heap[n].nStart
        /\ heap[n].nEnd <= 1
        /\ heap[n].life = "dead" /\ heap[n].nStart > 0 => heap[n].nEnd = 1

\* C2: end calls follow stack discipline: when on_end of a node is invoked,
\* no node stacked above it (started later on the same suspend stack) is
\* still started, so of two nodes of one stack the later started ends first.
C2_StackDiscipline ==
    \A i \in 1..Len(trace) : trace[i].hook = "OnEnd" => trace[i].g = 0

\* C2 witness: 1 suspended for 2, 2 suspended for 3, all three finished with
\* Done in one call: end(3), end(2), end(1) in that order.
C2_Witness ==
    /\ \E i, j, k \in 1..Len(trace) :
          /\ i < j /\ j < k
          /\ trace[i].hook = "OnEnd" /\ trace[i].node = 3 /\ trace[i].arg = 2
          /\ trace[j].hook = "OnEnd" /\ trace[j].node = 2 /\ trace[j].arg = 1
          /\ trace[k].hook = "OnEnd" /\ trace[k].node = 1
    /\ \E i, j \in 1..Len(trace) :
          /\ trace[i].hook = "OnSuspend" /\ trace[i].node = 1 /\ trace[i].arg = 2
          /\ trace[j].hook = "OnSuspend" /\ trace[j].node = 2 /\ trace[j].arg = 3
    /\ \A n \in Nodes : heap[n].life = "dead" /\ heap[n].nEnd = 1

\* the position of the first entry after position i that is about a node of
\* the set S, or 0 when the call made no such entry
NextFor(i, S) ==
    LET later == { j \in (i + 1)..Len(trace) : trace[j].node \in S }
    IN IF later = {} THEN 0
       ELSE CHOOSE j \in later : \A k \in later : j <= k

\* entry e is the invocation of hook on node with argument arg
Is(e, hook, node, arg) == e.hook = hook /\ e.node = node /\ e.arg = arg

\* the hooks whose result ApplyResult is given
ResultHooks == {"OnStart", "Update", "OnResume"}

\* a stack position: not covered, and the Behavior's m_action or the m_child
\* of a live Action
IsTop(n) ==
    /\ heap[n].m_coveringMe = NULL
    /\ \/ m_action = n
       \/ \E p \in Nodes : heap[p].life = "live" /\ heap[p].m_child = n

\* A started node A returns SuspendFor(X): on_suspend(A, X) is the next hook
\* of A, and then on_start(X, prior = A) the next hook of A or X.  With collapse allowed, an
\* on_suspend that returns Done is followed by on_end(A) instead, and A is
\* destroyed.
SuspendOrder(collapseAllowed) ==
    \A i \in 1..Len(trace) :
        LET A == trace[i].node
            X == trace[i].raction
            j == NextFor(i, {A})
            k == NextFor(j, {A, X})
        IN trace[i].hook \in ResultHooks /\ trace[i].rtype = "SUSPEND_FOR"
             /\ X # NULL /\ heap[A].nStart > 0 /\ fault = "none"
           => /\ j # 0 /\ Is(trace[j], "OnSuspend", A, X)
              /\ k # 0
              /\ IF collapseAllowed /\ trace[j].rtype = "DONE"
                 THEN Is(trace[k], "OnEnd", A, NULL) /\ heap[A].life = "dead"
                 ELSE Is(trace[k], "OnStart", X, A)

\* A started node X returns Done with A buried under it: on_end(X, next = A)
\* is the next hook of X, and then on_resume(A, X) the next hook of A.  With
\* a pending change
\* allowed, the resume may instead be skipped because A's slot holds a
\* ChangeTo, SuspendFor or Done proposal.
DoneOrder(pendingAllowed) ==
    \A i \in 1..Len(trace) :
        LET X == trace[i].node
            j == NextFor(i, {X})
            A == trace[j].arg
            k == NextFor(j, {A})
        IN trace[i].hook \in ResultHooks /\ trace[i].rtype = "DONE"
             /\ heap[X].nStart > 0 /\ fault = "none"
           => /\ j # 0 /\ trace[j].hook = "OnEnd"
              /\ A # NULL =>
                   /\ k # 0 /\ trace[k].arg = X
                   /\ \/ trace[k].hook = "OnResume"
                      \/ /\ pendingAllowed
                         /\ trace[k].hook = "NotResumed"
                         /\ trace[k].rtype \in {"CHANGE_TO", "SUSPEND_FOR", "DONE"}

\* once on_resume(A, X) has returned Continue and nothing more happened to A
\* in the call, A is alive, not suspended and on top, and X is destroyed
ResumedOnTop ==
    \A i \in 1..Len(trace) :
        LET A == trace[i].node
            X == trace[i].arg
        IN trace[i].hook = "OnResume" /\ X # NULL /\ trace[i].rtype = "CONTINUE"
             /\ NextFor(i, {A}) = 0 /\ fault = "none"
           => /\ heap[A].life = "live" /\ ~heap[A].m_isSuspended /\ IsTop(A)
              /\ heap[X].life = "dead"

C4_ResumedOnceBeforeUpdate ==
    \A i \in 1..Len(trace) :
        trace[i].hook = "Update" => trace[i].g \in {-1, 1}

RECURSIVE Closure(_, _)

\* S and every node reached from S by m_child and m_buriedUnderMe links
Closure(S, k) ==
    LET more == S \cup { heap[x].m_child : x \in S }
                  \cup { heap[x].m_buriedUnderMe : x \in S }
    IN IF k = 0 THEN S ELSE Closure(more \ {NULL}, k - 1)

\* the Actions n contains: its child stack and everything they contain
Contained(n) ==
    IF heap[n].m_child = NULL THEN {} ELSE Closure({heap[n].m_child}, MaxNodes)

\* some Action buried under n, at any depth, holds ChangeTo or Done in its
\* pending slot
BuriedHoldsChangeOrDone(n) ==
    \E b \in Under([h |-> heap], n, MaxNodes) :
        heap[b].m_eventResult.m_type \in {"CHANGE_TO", "DONE"}

\* an Update call on a stack where live node N is out of scope: neither N's
\* update hook nor that of an Action N contains is invoked; when N is the
\* top of the Behavior it is ended there and then, and the action its own
\* slot proposed is destroyed without ever having been started
OutOfScopeStep ==
    lastOp'.op = "Update" /\ lastOp'.arg # NULL /\ fault' = "none" =>
      \A N \in Nodes :
        heap[N].life = "live" /\ BuriedHoldsChangeOrDone(N) =>
          /\ \A i \in 1..Len(trace') :
                trace'[i].hook = "Update" =>
                    trace'[i].node \notin {N} \cup Contained(N)
          /\ N = m_action =>
                /\ heap'[N].life = "dead" /\ m_action' # N
                /\ heap[N].m_isStarted =>
                      \E i \in 1..Len(trace') :
                          /\ Is(trace'[i], "OnEnd", N, heap[N].m_buriedUnderMe)
                          /\ \A j \in 1..(i - 1) : trace'[j].hook = "OnEnd"
                /\ LET a == heap[N].m_eventResult.m_action
                   IN a # NULL =>
                        heap'[a].life = "dead" /\ heap'[a].nStart = 0

\* C5: if a node buried at any depth under N holds ChangeTo or Done in its
\* pending slot, N's next update yields Done without invoking N's update
\* hook, without updating N's active child and without applying N's own
\* pending slot.
C5_OutOfScope == [][OutOfScopeStep]_vars

\* C5 witness: an Update found node 1, buried under node 2, holding a pending
\* Done or ChangeTo: node 2 and its child 3 were ended without an update
\* hook, and node 1's slot still holds its proposal.
C5_Witness ==
    /\ lastOp.op = "Update" /\ m_action = 1
    /\ heap[1].m_eventResult.m_type \in {"CHANGE_TO", "DONE"}
    /\ Len(trace) = 3
    /\ Is(trace[1], "OnEnd", 3, 1)
    /\ Is(trace[2], "OnEnd", 2, 1)
    /\ Is(trace[3], "NotResumed", 1, 2)

\* the proposal of trace entry e: of an "OnEvent" entry what the handler
\* returned, of a "Store" entry what the slot held
Proposal(e) == EventDesiredResult(e.rtype, e.raction, e.prio)

\* the positions of the trace where a proposal was stored: the entry holds
\* the pending proposal S, the entry before it the arriving one R
Stores == { i \in 2..Len(trace) : trace[i].hook = "Store" }

\* the slot, after the call, of the node the store at position i was made on
SlotAfter(i) == heap[trace[i].node].m_eventResult

\* action a, if any, has been destroyed and was never started
DestroyedUnstarted(a) ==
    a # NULL => heap[a].life = "dead" /\ heap[a].nStart = 0 /\ heap[a].nEnd = 0

\* C6: a proposal R arriving at a slot holding S with R.priority <
\* S.priority, or with the same priority and S not a Sustain, leaves the slot
\* as it was, and the action R carried is destroyed at once (so a Try
\* proposal never displaces a pending Critical one).
C6_Rejection ==
    \A i \in Stores :
        LET R == Proposal(trace[i - 1])
            S == Proposal(trace[i])
        IN \/ R.m_priority < S.m_priority
           \/ R.m_priority = S.m_priority /\ S.m_type # "SUSTAIN"
           => /\ SlotAfter(i) = S
              /\ DestroyedUnstarted(R.m_action)
              /\ fault = "none"

\* C6 witness: a Try proposal carrying a new action met a pending Critical
\* proposal.
C6_Witness ==
    \E i \in Stores :
        /\ trace[i - 1].prio = RESULT_TRY /\ trace[i - 1].raction # NULL
        /\ trace[i].prio = RESULT_CRITICAL /\ trace[i].rtype # "SUSTAIN"
        /\ SlotAfter(i) = Proposal(trace[i])
        /\ heap[trace[i - 1].raction].life = "dead"

\* C7 as claimed: a Critical proposal overwrites whatever proposal is pending,
\* of any kind and priority: after the store the slot holds it.
C7_AsClaimed ==
    \A i \in Stores :
        trace[i - 1].prio = RESULT_CRITICAL =>
            SlotAfter(i) = Proposal(trace[i - 1])

\* C7, amended: a Critical proposal overwrites a pending proposal of lower
\* priority and a pending Sustain; a pending Critical ChangeTo, SuspendFor or
\* Done stays, and the arriving proposal's action is destroyed.
C7_CriticalOverwrites ==
    \A i \in Stores :
        LET R == Proposal(trace[i - 1])
            S == Proposal(trace[i])
        IN R.m_priority = RESULT_CRITICAL =>
             IF S.m_priority < RESULT_CRITICAL \/ S.m_type = "SUSTAIN"
             THEN SlotAfter(i) = R
             ELSE SlotAfter(i) = S /\ DestroyedUnstarted(R.m_action)

\* C7 witness: a Critical proposal replaced a pending Critical Sustain.
C7_Witness ==
    \E i \in Stores :
        /\ trace[i - 1].prio = RESULT_CRITICAL
        /\ trace[i - 1].rtype \in {"CHANGE_TO", "SUSPEND_FOR", "DONE"}
        /\ trace[i].prio = RESULT_CRITICAL /\ trace[i].rtype = "SUSTAIN"
        /\ SlotAfter(i) = Proposal(trace[i - 1])

\* C8: when R.priority > S.priority, or the priorities are equal and S is a
\* Sustain, the slot becomes R and the action S referenced is destroyed
\* exactly once and is never started.
C8_Replacement ==
    \A i \in Stores :
        LET R == Proposal(trace[i - 1])
            S == Proposal(trace[i])
        IN \/ R.m_priority > S.m_priority
           \/ R.m_priority = S.m_priority /\ S.m_type = "SUSTAIN"
           => /\ SlotAfter(i) = R
              /\ DestroyedUnstarted(S.m_action)
              /\ fault = "none"

\* C8 witness: a proposal of higher priority replaced a pending proposal
\* that carried an action.
C8_Witness ==
    \E i \in Stores :
        /\ trace[i - 1].prio > trace[i].prio
        /\ trace[i].raction # NULL
        /\ heap[trace[i].raction].life = "dead"
        /\ SlotAfter(i) = Proposal(trace[i - 1])

\* the fields of an Action other than its pending slot
Frame(rec) == [rec EXCEPT !.m_eventResult = TryContinue(RESULT_NONE)]

\* n is an action a pending slot proposes, and has never been started
IsProposed(h, n) ==
    /\ h[n].nStart = 0 /\ ~h[n].m_isStarted
    /\ \E m \in Nodes : h[m].life = "live" /\ h[m].m_eventResult.m_action = n

\* an event delivery changes pending slots only: the top of the stack, every
\* link and flag of every Action are as before and no lifecycle hook runs;
\* the Actions destroyed are unstarted proposed ones, the Actions constructed
\* are proposed ones (pending, or rejected and destroyed)
EventStep ==
    lastOp'.op = "OnEvent" =>
      /\ m_action' = m_action
      /\ fault' = "none"
      /\ \A i \in 1..Len(trace') : trace'[i].hook \in {"OnEvent", "Store"}
      /\ \A n \in Nodes :
            CASE heap[n].life = "live" ->
                   \/ Frame(heap'[n]) = Frame(heap[n])
                   \/ IsProposed(heap, n) /\ heap'[n] = Dead(heap[n])
              [] heap[n].life = "unborn" ->
                   \/ heap'[n] = heap[n]
                   \/ heap'[n] = Dead(NewAction)
                   \/ heap'[n] = NewAction /\ IsProposed(heap', n)
              [] OTHER -> heap'[n] = heap[n]

\* C9: event delivery never causes a transition: across an event-delivery
\* call the top of the stack, the links, the live stacked nodes and the
\* started and suspended flags are unchanged and no lifecycle hook is
\* invoked; only pending slots change and only unstarted proposed actions
\* are destroyed.
C9_EventFrame == [][EventStep]_vars

\* C9 witness: an event reached the handler of the Action buried under the
\* started top; its proposal met a pending one and was rejected, and the
\* action it carried was destroyed.
C9_Witness ==
    /\ lastOp.op = "OnEvent" /\ m_action # NULL
    /\ heap[m_action].m_isStarted /\ heap[m_action].m_buriedUnderMe # NULL
    /\ \E i \in Stores :
          /\ trace[i].node = heap[m_action].m_buriedUnderMe
          /\ IsRequestingChange(SlotAfter(i))
          /\ SlotAfter(i) = Proposal(trace[i])
          /\ trace[i - 1].raction # NULL
          /\ heap[trace[i - 1].raction].life = "dead"

RECURSIVE StackOf(_, _), ScanOrder(_, _)

\* n and the Actions buried under it, nearest first (at most k + 1 of them)
StackOf(n, k) ==
    IF n = NULL THEN <<>>
    ELSE IF k = 0 THEN <<n>>
    ELSE <<n>> \o StackOf(heap[n].m_buriedUnderMe, k - 1)

\* the documented order of a query from container n down: the stack of the
\* innermost active child first, the stack of n last
ScanOrder(n, k) ==
    IF n = NULL THEN <<>>
    ELSE (IF k = 0 THEN <<>> ELSE ScanOrder(heap[n].m_child, k - 1))
         \o StackOf(n, MaxNodes)

\* C10: a query asks the innermost active child of the top node, then the
\* nodes buried under it from nearest to deepest, then the node containing
\* them and its buried nodes, and so on up; it stops at and returns the
\* first defined answer, and returns ANSWER_UNDEFINED only when every node
\* of this order has been asked and none answered.
C10_QueryScanOrder ==
    lastOp.op = "ShouldPickUp" =>
      LET order == ScanOrder(m_action, MaxNodes)
          n     == Len(trace)
      IN /\ n <= Len(order)
         /\ \A i \in 1..n :
               /\ Is(trace[i], "ShouldPickUp", order[i], NULL)
               /\ i < n => trace[i].rtype = "ANSWER_UNDEFINED"
         /\ lastOp.arg = IF n = 0 THEN "ANSWER_UNDEFINED" ELSE trace[n].rtype
         /\ lastOp.arg = "ANSWER_UNDEFINED" => n = Len(order)

\* NextFor in the trace tr
NextIn(tr, i, S) ==
    LET later == { j \in (i + 1)..Len(tr) : tr[j].node \in S }
    IN IF later = {} THEN 0
       ELSE CHOOSE j \in later : \A k \in later : j <= k

\* an Update call in which the update hook of B, the active child of the
\* root top A, returns ChangeTo(C): on_end(B, C), then on_start(C, B); B is
\* destroyed; the first hook of A in the call is its update hook, after
\* these; and, when on_start(C) and update(A) return Continue and end the
\* call, C is A's active child with parent A and A is the started top
ChildChangeStep ==
    lastOp'.op = "Update" /\ fault' = "none" =>
      \A i \in 1..Len(trace') :
        LET B == trace'[i].node
            C == trace'[i].raction
            A == m_action
            j == NextIn(trace', i, {B})
            k == NextIn(trace', j, {B, C})
            u == NextIn(trace', 0, {A})
        IN trace'[i].hook = "Update" /\ trace'[i].rtype = "CHANGE_TO"
             /\ C # NULL /\ A # NULL /\ heap[B].life = "live"
             /\ heap[B].m_parent = A /\ heap[A].m_child = B
           => /\ j # 0 /\ Is(trace'[j], "OnEnd", B, C)
              /\ k # 0 /\ Is(trace'[k], "OnStart", C, B)
              /\ heap'[B].life = "dead" /\ heap'[B].nEnd = 1
              /\ u > k /\ Is(trace'[u], "Update", A, NULL)
              /\ trace'[k].rtype = "CONTINUE" /\ u = Len(trace')
                   /\ trace'[u].rtype = "CONTINUE"
                 => /\ m_action' = A /\ heap'[A].m_isStarted
                    /\ heap'[A].m_child = C /\ heap'[C].m_parent = A
                    /\ heap'[C].m_isStarted /\ heap'[A].nEnd = 0

EnvNull ==
    [hooks  |-> {<<"CONTINUE", FALSE>>, <<"DONE", FALSE>>,
                 <<"CHANGE_TO", FALSE>>, <<"SUSPEND_FOR", FALSE>>,
                 <<"SUSPEND_FOR", TRUE>>},
     events |-> {<<"CHANGE_TO", FALSE, RESULT_TRY>>,
                 <<"SUSPEND_FOR", FALSE, RESULT_TRY>>},
     children |-> TRUE,
     nodes |-> MaxNodes]

SpecNull == InitWith(EnvNull) /\ [][Next]_vars

\* C12: a ChangeTo or SuspendFor result that carries no action, returned by
\* a hook or taken from a pending slot, behaves as Continue: no hook is
\* invoked for it (no node is suspended for NULL) and the call completes.
C12_NullActionIsContinue ==
    /\ fault = "none"
    /\ \A i \in 1..Len(trace) :
          ~(trace[i].hook = "OnSuspend" /\ trace[i].arg = NULL)

RECURSIVE Reach(_, _, _)

\* S and every node reached from S in heap h by m_child and m_buriedUnderMe
\* links and as the action of a pending slot
Reach(h, S, k) ==
    LET more == S \cup { h[x].m_child : x \in S }
                  \cup { h[x].m_buriedUnderMe : x \in S }
                  \cup { h[x].m_eventResult.m_action : x \in S }
    IN IF k = 0 THEN S ELSE Reach(h, more \ {NULL}, k - 1)

\* the existing stack of the Behavior: its top, every buried node, their
\* child subtrees and the actions of their pending slots
Stack(h, top) == IF top = NULL THEN {} ELSE Reach(h, {top}, MaxNodes)

\* a Reset call destroys every node of the stack it finds and leaves the
\* new action as the only node of the stack
ResetStep ==
    lastOp'.op = "Reset" =>
      /\ fault' = "none"
      /\ m_action' = lastOp'.arg
      /\ \A n \in Stack(heap, m_action) : heap'[n].life = "dead"
      /\ Stack(heap', m_action') = {m_action'} \ {NULL}

\* C13: Reset(newAction) destroys the whole existing stack (the top, every
\* buried node, their child subtrees and the actions held in pending slots),
\* whatever stack was reached, and newAction is then the sole top node.
C13_ResetDestroysStack == [][ResetStep]_vars

\* a Resume call on a top node that is not started starts it first, as Update
\* does: the first hook of the call is not on_resume of an unstarted node
ResumeStep ==
    lastOp'.op = "Resume" /\ lastOp'.arg # NULL /\ m_action # NULL
      /\ ~heap[m_action].m_isStarted
    => /\ Len(trace') > 0
       /\ Is(trace'[1], "OnStart", m_action, m_action)
       /\ \A i \in 1..Len(trace') :
            trace'[i].hook = "OnResume" => \E j \in 1..(i - 1) :
                trace'[j].hook = "OnStart" /\ trace'[j].node = trace'[i].node

\* C14: Resume(actor) has the shape of Update with on_resume in place of the
\* update hook (out-of-scope check, start of an unstarted node, pending slot
\* first, active child first) and never invokes on_resume on a node that is
\* not started.
C14_ResumeLikeUpdate == [][ResumeStep]_vars

\* the change request in the pending slot of the top node T is what an Update
\* call does first with T: the first hook invoked on T is the one of the
\* transition (on_end for ChangeTo and Done, on_suspend for SuspendFor), and
\* the action the request carries is started in that call
PendingExecuted(T) ==
    LET slot == heap[T].m_eventResult
        a    == slot.m_action
        f    == NextIn(trace', 0, {T})
    IN /\ f # 0
       /\ slot.m_type = "CHANGE_TO" => Is(trace'[f], "OnEnd", T, a)
       /\ slot.m_type = "SUSPEND_FOR" => Is(trace'[f], "OnSuspend", T, a)
       /\ slot.m_type = "DONE" =>
             Is(trace'[f], "OnEnd", T, heap[T].m_buriedUnderMe)
       /\ slot.m_type \in {"CHANGE_TO", "DONE"} => heap'[T].life = "dead"
       /\ a # NULL => /\ heap'[a].nStart = 1
                      /\ \E j \in (f + 1)..Len(trace') :
                            trace'[j].hook = "OnStart" /\ trace'[j].node = a

\* the top node's slot holds a change request when Update is called
PendingStep(scoped) ==
    /\ lastOp'.op = "Update" /\ lastOp'.arg # NULL /\ fault' = "none"
    /\ m_action # NULL
    /\ IsRequestingChange(heap[m_action].m_eventResult)
    /\ scoped => /\ ~BuriedHoldsChangeOrDone(m_action)
                 /\ heap[m_action].m_isStarted
    => PendingExecuted(m_action)

\* C15 as claimed: the change request stored in the top node's pending slot
\* by the events between two updates is executed by the next Update call,
\* the transition applied in that tick and its action started.
C15_AsClaimed == [][PendingStep(FALSE)]_vars

\* C15: the change request stored in the top node's pending slot by the
\* events between two updates is executed by the next Update call, the
\* transition applied in that tick and its action started, provided the top
\* node is started and no node buried under it holds ChangeTo or Done in its
\* slot (the top is in scope).
C15_PendingExecuted == [][PendingStep(TRUE)]_vars

\* node 1 had SuspendFor(2) pending: the Update call suspended it and started 2
C15_Witness ==
    /\ lastOp.op = "Update" /\ fault = "none" /\ m_action = 2
    /\ Len(trace) = 2
    /\ Is(trace[1], "OnSuspend", 1, 2) /\ Is(trace[2], "OnStart", 2, 1)
    /\ heap[1].m_buriedUnderMe = NULL /\ heap[2].m_buriedUnderMe = 1
    /\ heap[1].m_eventResult = TryContinue(RESULT_NONE)

\* the call changed nothing and invoked no hook
NoOp == m_action' = m_action /\ heap' = heap /\ trace' = <<>> /\ fault' = "none"

\* Update with a null actor or on an idle Behavior is a no-op; an idle
\* Behavior stays idle under Update, Resume and events; an Update in which
\* the update hook of the top node T, with nothing buried under it, returns
\* Done ends T with next = NULL, destroys it and leaves the Behavior idle
IdleStep ==
    /\ lastOp'.op = "Update" /\ (lastOp'.arg = NULL \/ m_action = NULL) => NoOp
    /\ lastOp'.op \in {"Update", "Resume", "OnEvent"} /\ m_action = NULL => NoOp
    /\ lastOp'.op = "Update" /\ lastOp'.arg # NULL /\ m_action # NULL
         /\ heap[m_action].m_buriedUnderMe = NULL =>
         \A i \in 1..Len(trace') :
           trace'[i].hook = "Update" /\ trace'[i].node = m_action
             /\ trace'[i].rtype = "DONE" =>
             /\ i < Len(trace')
             /\ Is(trace'[Len(trace')], "OnEnd", m_action, NULL)
             /\ \A j \in (i + 1)..Len(trace') : trace'[j].hook = "OnEnd"
             /\ heap'[m_action].life = "dead" /\ heap'[m_action].nEnd = 1
             /\ m_action' = NULL /\ fault' = "none"

\* C16: Update is a no-op when the Behavior is idle or the actor is null;
\* when the top node finishes with Done and nothing is buried under it,
\* on_end is called on it with next = none, it is destroyed, the Behavior
\* becomes idle and stays idle under Update, Resume and event calls.
C16_Idle == [][IdleStep]_vars

\* node 1 finished with Done, and Update was called again on the idle Behavior
C16_Witness ==
    /\ lastOp.op = "Update" /\ lastOp.arg # NULL /\ m_action = NULL
    /\ trace = <<>>
    /\ heap[1].life = "dead" /\ heap[1].nEnd = 1 /\ heap[2].life = "unborn"

\* the nodes constructed and not destroyed that the Behavior no longer holds
Leaked(h, top) == { n \in Nodes : h[n].life = "live" } \ Stack(h, top)

\* an Update, Resume or event call leaks no node: every node alive after the
\* call is held by the stack, unless it was already out of the stack before
NoLeakStep ==
    lastOp'.op \in {"Update", "Resume", "OnEvent"} /\ fault' = "none" =>
      Leaked(heap', m_action') \subseteq Leaked(heap, m_action)

\* C17: no operation leaks a node: after any Update, Resume or event
\* delivery every node constructed and not yet destroyed is reachable from
\* the top node through active_child / buried_under links or is held in the
\* pending slot of a reachable node, the actions carried by rejected, coerced
\* or cleared results included.
C17_NoLeak == [][NoLeakStep]_vars

RECURSIVE ChildChain(_, _)

\* n and the active children nested in it: the tops of the nested stacks
ChildChain(n, k) ==
    IF n = NULL THEN {}
    ELSE IF k = 0 THEN {n}
    ELSE {n} \cup ChildChain(heap[n].m_child, k - 1)

\* the top of the stack that node n is part of
TopOf(n) ==
    CHOOSE t \in ChildChain(m_action, MaxNodes) :
        n \in {t} \cup Under([h |-> heap], t, MaxNodes)

\* entry i of an event delivery is the last of its stack level: a handler
\* that proposed (followed by the store), or the handler of the deepest
\* buried node returning Continue
EndsLevel(tr, i) ==
    \/ tr[i].hook = "Store"
    \/ /\ tr[i].hook = "OnEvent" /\ tr[i].rtype = "CONTINUE"
       /\ heap[tr[i].node].m_buriedUnderMe = NULL

\* an event delivery asks the started top node first, then, while handlers
\* return Continue, the next node along the buried links; the first handler
\* that proposes stops the level and its proposal goes to that node's slot;
\* the delivery then goes on with the active child of the level's top; the
\* slot of a node at which no level stopped is unchanged
PropagationStep ==
    lastOp'.op = "OnEvent" =>
      /\ IF m_action # NULL /\ heap[m_action].m_isStarted
         THEN Len(trace') > 0 /\ Is(trace'[1], "OnEvent", m_action, NULL)
         ELSE trace' = <<>>
      /\ \A i \in 1..Len(trace') :
           LET e == trace'[i]  b == heap[e.node].m_buriedUnderMe
               c == heap[TopOf(e.node)].m_child
           IN /\ e.hook = "OnEvent" /\ e.rtype = "CONTINUE" /\ b # NULL =>
                   i < Len(trace') /\ Is(trace'[i + 1], "OnEvent", b, NULL)
              /\ e.hook = "OnEvent" /\ e.rtype # "CONTINUE" =>
                   i < Len(trace') /\ trace'[i + 1].hook = "Store"
                                   /\ trace'[i + 1].node = e.node
              /\ EndsLevel(trace', i) =>
                   IF c # NULL /\ heap[c].m_isStarted
                   THEN i < Len(trace') /\ Is(trace'[i + 1], "OnEvent", c, NULL)
                   ELSE i = Len(trace')
      /\ \A n \in Nodes :
           heap[n].life = "live" /\ heap'[n].life = "live"
             /\ (\A i \in 1..Len(trace') :
                    ~(trace'[i].hook = "Store" /\ trace'[i].node = n))
           => heap'[n].m_eventResult = heap[n].m_eventResult

\* C18: an event is offered to the started node's handler first, then, while
\* handlers return Continue, to the next node along buried_under; it stops
\* at the first handler returning anything else, the handlers of the nodes
\* below are not invoked, the proposal is merged into the stopping node's
\* slot and no other slot of that level changes; when every handler returns
\* Continue no slot changes.
C18_PropagationOrder == [][PropagationStep]_vars

\* of the stack 3 over 2 over 1, node 3 returned Continue and node 2 proposed
\* Done: the handler of node 1 was not invoked and only node 2's slot holds
\* the proposal
C18_Witness ==
    /\ lastOp.op = "OnEvent" /\ m_action = 3 /\ Len(trace) = 3
    /\ heap[3].m_buriedUnderMe = 2 /\ heap[2].m_buriedUnderMe = 1
    /\ Is(trace[1], "OnEvent", 3, NULL) /\ trace[1].rtype = "CONTINUE"
    /\ Is(trace[2], "OnEvent", 2, NULL) /\ trace[2].rtype = "DONE"
    /\ trace[3].hook = "Store" /\ trace[3].node = 2
    /\ heap[2].m_eventResult.m_type = "DONE"
    /\ heap[1].m_eventResult = TryContinue(RESULT_NONE)
    /\ heap[3].m_eventResult = TryContinue(RESULT_NONE)

\* the Actions of the specification of buried proposals: hooks suspend for
\* new actions, event handlers propose SuspendFor with a new action or with
\* NULL (so that several buried nodes can propose at once) and Sustain
EnvBuried ==
    [hooks  |-> {<<"CONTINUE", FALSE>>, <<"DONE", FALSE>>,
                 <<"SUSPEND_FOR", TRUE>>},
     events |-> {<<"SUSPEND_FOR", TRUE, RESULT_TRY>>,
                 <<"SUSPEND_FOR", FALSE, RESULT_TRY>>,
                 <<"SUSTAIN", FALSE, RESULT_CRITICAL>>},
     children |-> FALSE,
     nodes |-> MaxNodes]

SpecBuried == InitWith(EnvBuried) /\ [][Next]_vars

\* the nodes buried under T whose slot holds SuspendFor
Proposers(T) ==
    { b \in Under([h |-> heap], T, MaxNodes) :
        heap[b].m_eventResult.m_type = "SUSPEND_FOR" }

\* the proposer nearest the top: every other proposer is buried under it
Nearest(T) ==
    CHOOSE b \in Proposers(T) :
        Proposers(T) \subseteq {b} \cup Under([h |-> heap], b, MaxNodes)

\* an Update call on a started top T in scope, whose own slot requests no
\* change, with SuspendFor(a) pending in the slot of the nearest buried
\* proposer u: the first hook on T is on_suspend(T, a), then a is started
\* with T as prior (with the node under T when T collapsed, if collapse is
\* allowed); u's slot is emptied, those of deeper proposers are kept; when
\* a's on_start returns Continue, a is the top, buried on T, and u is where
\* it was
BuriedSuspendStep(collapse) ==
    /\ lastOp'.op = "Update" /\ lastOp'.arg # NULL /\ m_action # NULL
    /\ heap[m_action].m_isStarted
    /\ ~BuriedHoldsChangeOrDone(m_action)
    /\ ~IsRequestingChange(heap[m_action].m_eventResult)
    /\ Proposers(m_action) # {}
    => LET T == m_action
           u == Nearest(T)
           a == heap[u].m_eventResult.m_action
           f == NextIn(trace', 0, {T})
           k == NextIn(trace', f, {a})
           collapsed == collapse /\ trace'[f].rtype = "DONE"
           base == IF collapsed THEN heap[T].m_buriedUnderMe ELSE T
       IN /\ f # 0 /\ Is(trace'[f], "OnSuspend", T, a)
          /\ heap'[u].life = "live" =>
                heap'[u].m_eventResult = TryContinue(RESULT_NONE)
          /\ \A w \in Proposers(T) \ {u} :
                heap'[w].life = "live" =>
                  heap'[w].m_eventResult = heap[w].m_eventResult
          /\ a # NULL /\ fault' = "none" =>
                /\ k # 0 /\ Is(trace'[k], "OnStart", a, base)
                /\ k = Len(trace') /\ trace'[k].rtype = "CONTINUE" =>
                      /\ m_action' = a
                      /\ heap'[a].m_buriedUnderMe = base
                      /\ heap'[a].m_isStarted
                      /\ heap'[u].m_buriedUnderMe = heap[u].m_buriedUnderMe
                      /\ u \in Under([h |-> heap'], a, MaxNodes)
                      /\ ~collapsed => heap'[T].m_isSuspended

\* C19 as claimed: a SuspendFor proposal in a buried node's slot is applied
\* at the next update of the top: on_suspend is invoked on the former top
\* and the new node's buried_under is that former top.
C19_AsClaimed == [][BuriedSuspendStep(FALSE)]_vars

\* C19: a SuspendFor proposal in a buried node's slot is applied at the next
\* update of the started top (in scope, own slot requesting no change): the
\* new action is pushed on the top, on_suspend is invoked on the former top,
\* the new node is buried on the former top, or on the node under it when
\* the former top's on_suspend returned Done; the proposer keeps its
\* position and its slot is emptied; of several buried proposers the one
\* nearest the top is taken first.
C19_BuriedSuspendFor == [][BuriedSuspendStep(TRUE)]_vars

\* the top node 2 holds Sustain and the buried node 1 proposed SuspendFor(3):
\* the Update call suspended 2 and started 3 on top of it
C19_Witness ==
    /\ lastOp.op = "Update" /\ fault = "none" /\ m_action = 3
    /\ Len(trace) = 2
    /\ Is(trace[1], "OnSuspend", 2, 3) /\ Is(trace[2], "OnStart", 3, 2)
    /\ heap[3].m_buriedUnderMe = 2 /\ heap[2].m_buriedUnderMe = 1
    /\ heap[2].m_eventResult.m_type = "SUSTAIN"
    /\ heap[1].m_eventResult = TryContinue(RESULT_NONE)

\* C20: a node's update hook is invoked at most once per Update call, and
\* only on a started node that is the top of its stack and not suspended:
\* never on a node that was buried and has had no on_resume since.
C20_UpdateOnlyWhenActive ==
    lastOp.op = "Update" =>
      \A i \in 1..Len(trace) :
        trace[i].hook = "Update" =>
          /\ \A j \in 1..Len(trace) :
                trace[j].hook = "Update" /\ trace[j].node = trace[i].node
                  => j = i
          /\ trace[i].g # 0

\* the nodes on the suspend stacks of the Behavior: the top, its buried
\* nodes and the active children nested in them
Stacked == IF m_action = NULL THEN {} ELSE Closure({m_action}, MaxNodes)

\* C21: covering/buried symmetry: after every completed Update, Resume,
\* Reset or event call, a stacked node N with buried_under = B has
\* B.covering = N, a stacked node B with covering = N has N.buried_under = B,
\* and the top of each suspend stack has covering = none.
C21_CoveringSymmetry ==
    lastOp.op \in {"Update", "Resume", "Reset", "OnEvent"} /\ fault = "none" =>
      /\ \A N \in Stacked :
           /\ heap[N].m_buriedUnderMe # NULL =>
                heap[heap[N].m_buriedUnderMe].m_coveringMe = N
           /\ heap[N].m_coveringMe # NULL =>
                heap[heap[N].m_coveringMe].m_buriedUnderMe = N
           /\ heap[N].m_child # NULL =>
                heap[heap[N].m_child].m_coveringMe = NULL
      /\ m_action # NULL => heap[m_action].m_coveringMe = NULL

\* C22: parent/child consistency: after every completed operation, whenever
\* P.active_child = C, C.parent = P and every node of C's buried chain has
\* parent P (a node that replaces or interrupts a node of P's child stack,
\* also when the interrupted node collapses, has parent P).
C22_ParentChild ==
    fault = "none" =>
      \A P \in Stacked :
        LET C == heap[P].m_child IN
        C # NULL =>
          \A n \in {C} \cup Under([h |-> heap], C, MaxNodes) :
              heap[n].m_parent = P

\* the places that hold node n: the Behavior's top pointer and the m_child,
\* m_buriedUnderMe and pending-slot pointers of the live nodes
Positions(n) ==
    { <<"top", NULL>> : k \in {m_action} \cap {n} }
    \cup { <<"child", q>> : q \in { q \in Nodes : heap[q].life = "live"
                                                   /\ heap[q].m_child = n } }
    \cup { <<"buried", q>> : q \in { q \in Nodes : heap[q].life = "live"
                                        /\ heap[q].m_buriedUnderMe = n } }
    \cup { <<"slot", q>> : q \in { q \in Nodes : heap[q].life = "live"
                                        /\ heap[q].m_eventResult.m_action = n } }

\* C23: with every transition's next action freshly constructed, in every
\* reachable state buried_under chains are acyclic, no node is the
\* active_child of two nodes, and no node is at two positions of the
\* structure (two suspend stacks, or a stack and a pending slot).
C23_NoAliasing ==
    fault = "none" =>
      \A n \in Nodes :
        heap[n].life = "live" =>
          /\ n \notin Under([h |-> heap], n, MaxNodes)
          /\ Cardinality(Positions(n)) <= 1

\* node 2 is on top of buried node 1, whose slot holds the unstarted node 3
C23_Witness ==
    /\ fault = "none" /\ m_action = 2 /\ heap[2].m_buriedUnderMe = 1
    /\ heap[1].m_eventResult.m_action = 3 /\ heap[3].life = "live"
    /\ Positions(1) = {<<"buried", 2>>} /\ Positions(3) = {<<"slot", 1>>}

\* pointer x is NULL or refers to a node that has not been destroyed
Valid(x) == x = NULL \/ heap[x].life = "live"

\* C24: no node is destroyed more than once, and after any operation no link
\* of a live node (the Behavior's top, active_child, buried_under, covering,
\* parent, pending-slot action) refers to a destroyed node.
C24_NoDanglingLink ==
    /\ fault # "delete of a freed object"
    /\ fault = "none" =>
         /\ behaviorLive => Valid(m_action)
         /\ \A n \in Nodes :
              heap[n].life = "live" =>
                /\ Valid(heap[n].m_child)
                /\ Valid(heap[n].m_buriedUnderMe)
                /\ Valid(heap[n].m_coveringMe)
                /\ Valid(heap[n].m_parent)
                /\ Valid(heap[n].m_eventResult.m_action)

\* node N passes the tests of InvokeUpdate that precede the update of its
\* child: started, in scope, nothing pending in its own slot or in a buried
\* SuspendFor slot
PassesToChild(N) ==
    /\ heap[N].m_isStarted
    /\ ~BuriedHoldsChangeOrDone(N)
    /\ ~IsRequestingChange(heap[N].m_eventResult)
    /\ Proposers(N) = {}

RECURSIVE UpdateReaches(_, _)

\* an Update call invokes InvokeUpdate on N: N is the top of the Behavior, or
\* the active child of a node InvokeUpdate reaches and that passes to it
UpdateReaches(N, k) ==
    \/ N = m_action
    \/ /\ k > 0
       /\ \E P \in Nodes : /\ heap[P].life = "live" /\ heap[P].m_child = N
                           /\ PassesToChild(P) /\ UpdateReaches(P, k - 1)

\* an Update call reaching a started node N in scope whose own slot holds a
\* change request: no update hook of N or of a node N contains is invoked,
\* the first hook on N is that of the requested transition, and the slot of
\* N, if N is still there, is empty
OwnSlotStep ==
    lastOp'.op = "Update" /\ lastOp'.arg # NULL /\ fault' = "none" =>
      \A N \in Nodes :
        LET slot == heap[N].m_eventResult
            a    == slot.m_action
            f    == NextIn(trace', 0, {N})
        IN /\ heap[N].life = "live" /\ UpdateReaches(N, MaxNodes)
           /\ heap[N].m_isStarted /\ ~BuriedHoldsChangeOrDone(N)
           /\ IsRequestingChange(slot)
           => /\ \A i \in 1..Len(trace') :
                    trace'[i].hook = "Update" =>
                        trace'[i].node \notin {N} \cup Contained(N)
              /\ slot.m_type = "CHANGE_TO" /\ a # NULL =>
                    f # 0 /\ Is(trace'[f], "OnEnd", N, a)
              /\ slot.m_type = "CHANGE_TO" /\ a = NULL => f = 0
              /\ slot.m_type = "SUSPEND_FOR" =>
                    f # 0 /\ Is(trace'[f], "OnSuspend", N, a)
              /\ slot.m_type = "DONE" =>
                    f # 0 /\ Is(trace'[f], "OnEnd", N, heap[N].m_buriedUnderMe)
              /\ heap'[N].life = "live" =>
                    heap'[N].m_eventResult = TryContinue(RESULT_NONE)

\* C25: when a node's own pending slot holds ChangeTo, SuspendFor or Done at
\* update time (the node started and not out of scope), that request is the
\* tick's result, the slot is reset to empty (Continue, priority None, no
\* action), and neither the active child's update nor the node's own update
\* hook is invoked in that tick.
C25_OwnSlotFirst == [][OwnSlotStep]_vars

\* the active child 2 of node 1 had ChangeTo(3) pending: the Update call
\* ended 2 and started 3 without invoking the update hook of 2, then ran
\* the update hook of node 1
C25_Witness ==
    /\ lastOp.op = "Update" /\ fault = "none" /\ m_action = 1
    /\ Len(trace) = 3
    /\ Is(trace[1], "OnEnd", 2, 3) /\ Is(trace[2], "OnStart", 3, 2)
    /\ Is(trace[3], "Update", 1, NULL)
    /\ heap[1].m_child = 3 /\ heap[2].life = "dead"

\* C26: a pending slot is consumed by the update that reads it: after an
\* Update call in which a node's update hook ran and which leaves the node
\* on the stack, the node's slot is empty (Continue, priority None), so an
\* entry stored before that tick, a Sustain included, cannot reject a later
\* proposal.
C26_SlotConsumed ==
    lastOp.op = "Update" /\ fault = "none" =>
      \A i \in 1..Len(trace) :
        trace[i].hook = "Update" /\ heap[trace[i].node].life = "live" =>
          heap[trace[i].node].m_eventResult = TryContinue(RESULT_NONE)

\* an on_suspend hook of the interrupted node T (not a node contained in it:
\* those are followed by the on_suspend of their container) returns ChangeTo
\* or SuspendFor: no hook is invoked on T before the interrupting node X is
\* started with T as prior, and when nothing else happens to T and X in the
\* call, T is alive, suspended, not ended, started if it ever was, and X is
\* buried on it
CoercedStep ==
    lastOp'.op \in {"Update", "Resume"} /\ fault' = "none" =>
      \A i \in 1..Len(trace') :
        LET T == trace'[i].node
            X == trace'[i].arg
            k == NextIn(trace', i, {X})
        IN /\ trace'[i].hook = "OnSuspend"
           /\ trace'[i].rtype \in {"CHANGE_TO", "SUSPEND_FOR"}
           /\ ~(i < Len(trace') /\ trace'[i + 1].hook = "OnSuspend")
           => /\ k # 0 /\ Is(trace'[k], "OnStart", X, T)
              /\ \A j \in (i + 1)..(k - 1) : trace'[j].node # T
              /\ trace'[k].rtype = "CONTINUE"
                   /\ NextIn(trace', k, {T, X}) = 0 =>
                   /\ heap'[T].life = "live"
                   /\ heap'[T].m_isSuspended
                   /\ heap'[T].nStart > 0 => heap'[T].m_isStarted
                   /\ heap'[T].nEnd = heap[T].nEnd
                   /\ heap'[X].m_buriedUnderMe = T

\* C27: an on_suspend result other than Continue or Done (ChangeTo,
\* SuspendFor) is treated as Continue: the node stays on the stack, started,
\* with suspended = true, buried under the interrupting node, and no on_end
\* is invoked on it.
C27_SuspendCoerced == [][CoercedStep]_vars

\* node 1 answered on_suspend with ChangeTo(3) and is buried under node 2
C27_Witness ==
    /\ lastOp.op = "Update" /\ fault = "none" /\ m_action = 2
    /\ Len(trace) = 3
    /\ Is(trace[2], "OnSuspend", 1, 2) /\ trace[2].rtype = "CHANGE_TO"
    /\ Is(trace[3], "OnStart", 2, 1) /\ trace[3].rtype = "CONTINUE"
    /\ heap[2].m_buriedUnderMe = 1
    /\ heap[1].m_isSuspended /\ heap[1].nEnd = 0

\* the on_suspend hook of the interrupted node T (the last node suspended
\* before the interrupting node X starts) returns Done: T is ended with
\* next = NULL before X starts, exactly once, and destroyed; X is started
\* with the node that was buried under T as prior, and when X's on_start
\* returns Continue X is buried on that node and its stack is as deep as
\* T's was
CollapseStep ==
    lastOp'.op \in {"Update", "Resume"} /\ fault' = "none" =>
      \A i \in 1..Len(trace') :
        LET T == trace'[i].node
            X == trace'[i].arg
            k == NextIn(trace', i, {X})
            e == NextIn(trace', i, {T})
            B == heap[T].m_buriedUnderMe
        IN /\ trace'[i].hook = "OnSuspend" /\ trace'[i].rtype = "DONE"
           /\ \A j \in (i + 1)..Len(trace') :
                 trace'[j].hook = "OnSuspend" => k # 0 /\ k < j
           => /\ e # 0 /\ Is(trace'[e], "OnEnd", T, NULL)
              /\ NextIn(trace', e, {T}) = 0
              /\ heap'[T].life = "dead" /\ heap'[T].nEnd = 1
              /\ k # 0 /\ e < k /\ trace'[k].hook = "OnStart"
              /\ heap[T].m_isStarted => trace'[k].arg = B
              /\ trace'[k].rtype = "CONTINUE"
                   /\ NextIn(trace', k, {X}) = 0 =>
                   /\ heap'[X].life = "live"
                   /\ heap'[X].m_buriedUnderMe = trace'[k].arg
                   /\ heap[T].m_isStarted =>
                        Cardinality(Under([h |-> heap'], X, MaxNodes))
                          = Cardinality(Under([h |-> heap], T, MaxNodes))

\* C28: suspension-collapse: when SuspendFor(X) is applied and the top
\* node T's on_suspend returns Done, on_end is invoked on T exactly once, T
\* is destroyed and is not on the stack, and X is started with buried_under
\* equal to T's former buried_under (or none): the stack depth is unchanged.
C28_Collapse == [][CollapseStep]_vars

\* the fields of an Action other than its m_coveringMe link
Uncovered(rec) == [rec EXCEPT !.m_coveringMe = NULL]

\* the nodes of a sequence of nodes
Range(seq) == { seq[i] : i \in 1..Len(seq) }

\* a hook of the started node A returns ChangeTo(C): A is ended with next = C
\* and C is started with prior = A while no hook is invoked on a node buried
\* under A; when C's on_start returns Continue and nothing else happens to C
\* in the call, C is buried on what A was buried on, and every node of that
\* chain is as it was (alive, same links below, flags and slot, not ended)
ChangeToStep ==
    lastOp'.op \in {"Update", "Resume"} /\ fault' = "none" =>
      \A i \in 1..Len(trace') :
        LET A == trace'[i].node
            C == trace'[i].raction
            B == heap[A].m_buriedUnderMe
            chain == StackOf(B, MaxNodes)
            j == NextIn(trace', i, {A})
            k == NextIn(trace', i, {C})
        IN /\ trace'[i].hook \in ResultHooks /\ trace'[i].rtype = "CHANGE_TO"
           /\ C # NULL /\ heap[A].life = "live" /\ heap[A].m_isStarted
           /\ \A x \in 1..(i - 1) : trace'[x].node # A
           => /\ j # 0 /\ Is(trace'[j], "OnEnd", A, C)
              /\ k # 0 /\ j < k /\ Is(trace'[k], "OnStart", C, A)
              /\ \A x \in (i + 1)..k : trace'[x].node \notin Range(chain)
              /\ heap'[A].life = "dead"
              /\ trace'[k].rtype = "CONTINUE"
                   /\ NextIn(trace', k, {C}) = 0 =>
                   /\ heap'[C].life = "live"
                   /\ heap'[C].m_buriedUnderMe = B
                   /\ \A b \in Range(chain) :
                        /\ Uncovered(heap'[b]) = Uncovered(heap[b])
                        /\ heap'[b].life = "live" /\ heap'[b].m_isSuspended
                        /\ heap'[b].nStart > 0 => heap'[b].m_isStarted

\* C29: ChangeTo(next) replaces only the acting node: the chain buried under
\* the acting node is neither ended nor destroyed, next.buried_under is the
\* acting node's former buried_under, the buried nodes keep their order and
\* their started and suspended flags, and the stack depth is unchanged.
C29_ChangeToFrame == [][ChangeToStep]_vars

\* node 2, on top of the suspended node 1, changed to node 3: node 3 is
\* buried on node 1, which was not ended
C29_Witness ==
    /\ lastOp.op = "Update" /\ fault = "none" /\ m_action = 3
    /\ Len(trace) = 3
    /\ Is(trace[1], "Update", 2, NULL) /\ trace[1].rtype = "CHANGE_TO"
    /\ Is(trace[2], "OnEnd", 2, 3)
    /\ Is(trace[3], "OnStart", 3, 2) /\ trace[3].rtype = "CONTINUE"
    /\ heap[3].m_buriedUnderMe = 1 /\ heap[2].life = "dead"
    /\ heap[1].life = "live" /\ heap[1].m_isSuspended /\ heap[1].nEnd = 0

\* an Update call on a Behavior whose top node T is not started: the first
\* hook on T is on_start with prior = T, it is the only on_start of T in the
\* call, the update hook of T is not invoked, and when on_start returns
\* Continue T is alive, started, never ended and the top of the Behavior
FirstUpdateStep ==
    /\ lastOp'.op = "Update" /\ lastOp'.arg # NULL /\ fault' = "none"
    /\ m_action # NULL /\ ~heap[m_action].m_isStarted
    => LET T == m_action
           f == NextIn(trace', 0, {T})
       IN /\ f # 0 /\ Is(trace'[f], "OnStart", T, T)
          /\ \A i \in 1..Len(trace') :
                /\ trace'[i].hook = "OnStart" /\ trace'[i].node = T => i = f
                /\ trace'[i].hook = "Update" => trace'[i].node # T
          /\ trace'[f].rtype = "CONTINUE" =>
                /\ f = Len(trace') /\ m_action' = T
                /\ heap'[T].life = "live" /\ heap'[T].m_isStarted
                /\ heap'[T].nEnd = 0 /\ heap'[T].nStart = heap[T].nStart + 1

\* C30: an unstarted top node (after construction of the Behavior or after
\* Reset) is started by its first Update: that tick invokes its on_start
\* exactly once with prior = itself and does not invoke its update hook; no
\* on_end is invoked and the node is not destroyed by this self-ChangeTo.
C30_FirstUpdateStarts == [][FirstUpdateStep]_vars

\* the first Update after Reset(2) started node 2 with itself as prior
C30_Witness ==
    /\ lastOp.op = "Update" /\ fault = "none" /\ m_action = 2
    /\ trace = <<Entry("OnStart", 2, 2, Continue, RESULT_NONE, <<NULL, NULL>>)>>
    /\ heap[2].m_isStarted /\ heap[2].nStart = 1 /\ heap[2].nEnd = 0
    /\ heap[1].life = "dead"

\* an Update call in which the update hook of a node P with active child c
\* runs: if c was due for its own update hook (started, in scope, nothing
\* pending), that hook ran before P's, and the hooks of the transition it
\* returned (on_end or on_suspend of c, on_start of the new node) ran before
\* P's as well
ChildFirstStep ==
    lastOp'.op = "Update" /\ fault' = "none" =>
      \A u \in 1..Len(trace') :
        LET P == trace'[u].node
            c == heap[P].m_child
        IN /\ trace'[u].hook = "Update" /\ heap[P].life = "live"
           /\ c # NULL /\ PassesToChild(c)
           => \E v \in 1..(u - 1) :
                LET x == trace'[v].raction
                    w == NextIn(trace', v, {c})
                    y == NextIn(trace', v, {x})
                IN /\ Is(trace'[v], "Update", c, NULL)
                   /\ trace'[v].rtype \in {"DONE", "SUSPEND_FOR", "CHANGE_TO"}
                        /\ (trace'[v].rtype = "DONE" \/ x # NULL)
                        => w # 0 /\ w < u
                   /\ trace'[v].rtype \in {"SUSPEND_FOR", "CHANGE_TO"}
                        /\ x # NULL
                        => y # 0 /\ y < u /\ trace'[y].hook = "OnStart"

\* C31: within one Update call, for every node with an active child that
\* reaches its own update hook, the active child's update and the
\* application of the child's result complete before the parent's update
\* hook is invoked, recursively down the active-child chain.
C31_ChildUpdatedFirst == [][ChildFirstStep]_vars

\* node 3 is contained in node 2, which is contained in node 1: the update
\* hooks ran innermost first
C31_Witness ==
    /\ lastOp.op = "Update" /\ fault = "none" /\ m_action = 1
    /\ Len(trace) = 3
    /\ Is(trace[1], "Update", 3, NULL) /\ Is(trace[2], "Update", 2, NULL)
    /\ Is(trace[3], "Update", 1, NULL)
    /\ heap[1].m_child = 2 /\ heap[2].m_child = 3

\* a call in which on_start is invoked, with itself as prior, on a node c
\* created within the call: c is the initial child of the node P that was
\* c's parent at that moment, P's on_start follows as P's first hook of the
\* call, and at P's on_start P's active child is the node the start of c
\* ended with
InitialChildStep ==
    fault' = "none" =>
      \A i \in 1..Len(trace') :
        LET c == trace'[i].node
            P == trace'[i].g[1]
            j == NextIn(trace', 0, {P})
            last == trace'[j - 1]
        IN /\ trace'[i].hook = "OnStart" /\ trace'[i].arg = c
           /\ heap[c].life = "unborn"
           => /\ P # NULL /\ P # c
              /\ j > i /\ trace'[j].hook = "OnStart"
              /\ trace'[i].rtype = "CONTINUE" => trace'[j].g[2] = c
              /\ trace'[j].g[2] =
                   IF last.hook \in {"OnStart", "OnResume"}
                      /\ last.rtype = "CONTINUE"
                   THEN last.node ELSE NULL

\* C32: when a node provides an initial child, starting the node starts the
\* child first: the child's on_start is invoked, with the child's parent
\* already set to the node, before the node's own on_start, and when the
\* node's on_start runs its active child is the started child or whatever
\* the child's chained start transitions produced.
C32_InitialChildFirst == [][InitialChildStep]_vars

\* node 1 provided node 2 as its initial child; node 2's on_start asked to
\* change to node 3 and node 1's on_start ran with node 3 as active child
C32_Witness ==
    /\ lastOp.op = "Update" /\ fault = "none" /\ m_action = 1
    /\ Len(trace) = 4
    /\ Is(trace[1], "OnStart", 2, 2) /\ trace[1].g = <<1, NULL>>
    /\ trace[1].rtype = "CHANGE_TO" /\ trace[1].raction = 3
    /\ Is(trace[2], "OnEnd", 2, 3)
    /\ Is(trace[3], "OnStart", 3, 2) /\ trace[3].g = <<1, NULL>>
    /\ Is(trace[4], "OnStart", 1, 1) /\ trace[4].g = <<NULL, 3>>
    /\ heap[1].m_child = 3

\* a call in which a node ends with Done and uncovers the suspended node R,
\* whose slot requests a change (and was not emptied earlier in the call, by
\* a node above R taking the SuspendFor it held or by a SuspendFor() that a
\* hook of R itself returned): on_resume is not invoked on
\* R and, unless R is ended in the same call, R is still suspended with its
\* slot as it was
UncoverStep ==
    fault' = "none" =>
      \A i \in 1..Len(trace') :
        LET R == trace'[i].arg IN
          /\ trace'[i].hook = "OnEnd" /\ R # NULL
          /\ heap[R].life = "live" /\ heap[R].m_isSuspended
          /\ IsRequestingChange(heap[R].m_eventResult)
          /\ ~\E j \in 1..(i - 1) :
                \/ trace'[j].node = R
                \/ /\ heap[R].m_eventResult.m_type = "SUSPEND_FOR"
                   /\ trace'[j].hook = "OnSuspend"
                   /\ trace'[j].arg = heap[R].m_eventResult.m_action
          => /\ \A j \in 1..Len(trace') :
                   ~(trace'[j].hook = "OnResume" /\ trace'[j].node = R)
             /\ \E j \in (i + 1)..Len(trace') :
                   /\ trace'[j].hook = "NotResumed" /\ trace'[j].node = R
                   /\ trace'[j].rtype = heap[R].m_eventResult.m_type
             /\ heap'[R].life = "live" =>
                   /\ heap'[R].m_isSuspended
                   /\ heap'[R].m_eventResult = heap[R].m_eventResult

\* an Update call that reaches the uncovered node R, left suspended with a
\* change request in its slot: the request is what the call does first with R
NotResumedStep(scoped) ==
    lastOp'.op = "Update" /\ lastOp'.arg # NULL /\ fault' = "none" =>
      \A R \in Nodes :
        /\ heap[R].life = "live" /\ heap[R].m_isSuspended
        /\ heap[R].m_coveringMe = NULL /\ UpdateReaches(R, MaxNodes)
        /\ IsRequestingChange(heap[R].m_eventResult)
        /\ scoped => /\ ~BuriedHoldsChangeOrDone(R)
                     /\ heap[R].m_isStarted
        => PendingExecuted(R)

Height(h, b) ==
    Cardinality({ n \in Nodes : h[n].life = "live"
                                /\ b \in Under([h |-> h], n, MaxNodes) })

\* an Update call on a top T that is out of scope, in which every on_resume
\* hook returns Continue: T alone is removed, after its on_end, no update
\* hook runs, the node buried under T is the new top, the stack below it and
\* the pending slots in it are as they were, and every node buried under T
\* has one node less above it.  An Update call on the top B, left suspended
\* with ChangeTo or Done in its slot, applies that transition.
UnwindStep(scoped) ==
    lastOp'.op = "Update" /\ lastOp'.arg # NULL /\ fault' = "none"
    /\ m_action # NULL =>
      LET T == m_action
          U == heap[T].m_buriedUnderMe
          below == Under([h |-> heap], T, MaxNodes)
      IN /\ /\ BuriedHoldsChangeOrDone(T)
            /\ \A i \in 1..Len(trace') :
                  trace'[i].hook = "OnResume" => trace'[i].rtype = "CONTINUE"
            => /\ m_action' = U /\ heap'[T].life = "dead"
               /\ heap[T].m_isStarted =>
                     /\ heap'[T].nEnd = heap[T].nEnd + 1
                     /\ \E i \in 1..Len(trace') : Is(trace'[i], "OnEnd", T, U)
               /\ \A i \in 1..Len(trace') : trace'[i].hook # "Update"
               /\ heap'[U].m_coveringMe = NULL
               /\ \A b \in below :
                     /\ heap'[b].life = "live"
                     /\ heap'[b].m_buriedUnderMe = heap[b].m_buriedUnderMe
                     /\ heap'[b].m_eventResult = heap[b].m_eventResult
                     /\ Height(heap', b) = Height(heap, b) - 1
         /\ /\ heap[T].m_isSuspended
            /\ heap[T].m_eventResult.m_type \in {"CHANGE_TO", "DONE"}
            /\ scoped => /\ ~BuriedHoldsChangeOrDone(T)
                         /\ heap[T].m_isStarted
            => PendingExecuted(T)

QueryStep ==
    lastOp'.op = "ShouldPickUp" =>
      /\ m_action' = m_action /\ heap' = heap
      /\ behaviorLive' = behaviorLive /\ fault' = "none"
      /\ lastOp.op = "ShouldPickUp"
           /\ (\A i \in 1..Len(trace), j \in 1..Len(trace') :
                 trace[i].node = trace'[j].node
                   => trace[i].rtype = trace'[j].rtype)
           => trace' = trace /\ lastOp'.arg = lastOp.arg

\* C35: evaluating a query is read-only: it leaves the links, the started
\* and suspended flags, the pending slots and the set of live nodes
\* unchanged, so two identical queries with no Update, event or Reset
\* between them return the same answer.
C35_QueryReadOnly == [][QueryStep]_vars

\* a query answered by buried node 1, which is suspended with Done pending,
\* after the top node 2 gave no answer
C35_Witness ==
    /\ lastOp.op = "ShouldPickUp" /\ lastOp.arg = "ANSWER_YES"
    /\ m_action = 2 /\ heap[2].m_buriedUnderMe = 1
    /\ heap[1].m_isSuspended /\ heap[1].m_eventResult.m_type = "DONE"
    /\ Len(trace) = 2
    /\ Is(trace[1], "ShouldPickUp", 2, NULL)
    /\ Is(trace[2], "ShouldPickUp", 1, NULL)

\* a call of StorePendingEventResult with a Continue, of any priority,
\* changes nothing: the slot and every other field of every Action are as
\* they were and no Action is destroyed.  An event to which every handler
\* answers Continue changes nothing either.
ContinueDroppedStep ==
    /\ lastOp'.op = "StorePendingEventResult"
         /\ trace'[1].rtype = "CONTINUE"
         => heap' = heap /\ m_action' = m_action /\ fault' = "none"
    /\ lastOp'.op = "OnEvent"
         /\ (\A i \in 1..Len(trace') : trace'[i].rtype = "CONTINUE")
         => heap' = heap /\ m_action' = m_action /\ fault' = "none"

\* C36: a proposal of kind Continue is dropped whatever its priority, even
\* Critical: the slot is unchanged, nothing is destroyed, and a Continue
\* never replaces or clears a pending Sustain or change request.
C36_ContinueDropped == [][ContinueDroppedStep]_vars

\* a Critical Continue arrived at the slot of node 1, which held a Try
\* ChangeTo carrying node 2, and left it there
C36_Witness ==
    /\ lastOp = Op("StorePendingEventResult", 1) /\ fault = "none"
    /\ Len(trace) = 2
    /\ Proposal(trace[1]) = TryContinue(RESULT_CRITICAL)
    /\ Proposal(trace[2]) = TryChangeTo(2, RESULT_TRY)
    /\ heap[1].m_eventResult = TryChangeTo(2, RESULT_TRY)
    /\ heap[2].life = "live"

\* C37: on_end is never invoked on a node that is not started, and never
\* more than once between a node's on_start and its destruction or restart,
\* for any sequence of operations, including cascades through active
\* children, buried children and covering nodes that reach a node twice: no
\* node has more on_end than on_start invocations, a started node has not
\* been ended since its start, and no call ends a node twice.
C37_EndedOnlyStartedOnce ==
    /\ \A n \in Nodes :
          /\ heap[n].nEnd <= heap[n].nStart
          /\ heap[n].life = "live" /\ heap[n].m_isStarted
               => heap[n].nEnd < heap[n].nStart
    /\ \A i, j \in 1..Len(trace) :
          trace[i].hook = "OnEnd" /\ trace[j].hook = "OnEnd"
            /\ trace[i].node = trace[j].node => i = j

\* node 1 finished while its child 3 covered its buried child 2: the loop
\* over the children reached node 3 twice and ended each node once
C37_Witness ==
    /\ lastOp.op = "Update" /\ fault = "none" /\ m_action = NULL
    /\ Len(trace) = 5
    /\ Is(trace[1], "Update", 3, NULL)
    /\ Is(trace[2], "Update", 1, NULL) /\ trace[2].rtype = "DONE"
    /\ Is(trace[3], "OnEnd", 3, NULL)
    /\ Is(trace[4], "OnEnd", 2, NULL)
    /\ Is(trace[5], "OnEnd", 1, NULL)
    /\ \A n \in Nodes : heap[n].nStart = 1 /\ heap[n].nEnd = 1

\* C38: after every Update call returns, the Behavior is idle or its top
\* node is started and so is every node buried under the top and every node
\* of the stacks of the active children: the transitions chained by
\* on_start and on_resume are applied within the call and leave no
\* unstarted node on a stack.
C38_NoUnstartedStacked ==
    lastOp.op = "Update" /\ lastOp.arg # NULL /\ fault = "none" =>
      \A n \in Stacked : heap[n].m_isStarted

\* C39: in every state reached after a completed operation, every node
\* that is buried under another node, reachable by buried_under links from
\* the top of a suspend stack, has suspended = true.
C39_BuriedSuspended ==
    fault = "none" =>
      \A n \in Stacked :
        \A b \in Under([h |-> heap], n, MaxNodes) : heap[b].m_isSuspended

\* node 3 finished over node 2, which was resumed and is the top again, not
\* suspended, while node 1 under it is still suspended
C39_Witness ==
    /\ lastOp.op = "Update" /\ fault = "none" /\ m_action = 2
    /\ \E i \in 1..Len(trace) : Is(trace[i], "OnResume", 2, 3)
    /\ ~heap[2].m_isSuspended
    /\ heap[2].m_buriedUnderMe = 1 /\ heap[1].m_isSuspended
    /\ heap[1].m_coveringMe = 2

\* C40: event stores never lower a slot's priority: after a call of
\* StorePendingEventResult the priority of the slot is greater than or equal
\* to its priority before the call; and a slot with priority None always
\* has kind Continue and no action (a proposal at priority None that is not
\* a Continue is never stored).
C40_PriorityMonotone ==
    /\ \A i \in Stores : SlotAfter(i).m_priority >= trace[i].prio
    /\ \A n \in Nodes :
          heap[n].life = "live" /\ heap[n].m_eventResult.m_priority = RESULT_NONE
            => heap[n].m_eventResult = TryContinue(RESULT_NONE)

\* a ChangeTo carrying node 2 arrived at priority None at the empty slot of
\* node 1: it was not stored and node 2 was destroyed
C40_Witness ==
    /\ lastOp = Op("StorePendingEventResult", 1) /\ fault = "none"
    /\ Len(trace) = 2
    /\ Proposal(trace[1]) = TryChangeTo(2, RESULT_NONE)
    /\ Proposal(trace[2]) = TryContinue(RESULT_NONE)
    /\ heap[1].m_eventResult = TryContinue(RESULT_NONE)
    /\ heap[2].life = "dead"

=============================================================================
